---- MODULE Spec2Model ----
(***************************************************************************)
(* A model of the sigma-proof-compiler: the symbolic algebra               *)
(* (equations.rs), the structural reflection of witness and instance       *)
(* records (absorb.rs and the derive macros), the Fiat-Shamir transcript   *)
(* adapter (transcript.rs) and the generic prove / verify driver           *)
(* (compiler.rs), together with the shipped protocols (sigmas/).           *)
(*                                                                         *)
(* The external collaborators are abstracted as follows.                   *)
(*  - The Ristretto group is a cyclic group of prime order; the point k*G  *)
(*    is represented by k in 0..GroupOrder-1 and the scalar field by the   *)
(*    integers modulo GroupOrder.                                          *)
(*  - A 32-byte string is a Block, a number in 0..GroupOrder.  A scalar s  *)
(*    is encoded as the block s; the block GroupOrder is a non-canonical   *)
(*    scalar.  The point k*G is compressed to the block k+1; the block 0   *)
(*    is not the encoding of any point.                                    *)
(*  - The Merlin sponge is the sequence of the messages appended so far;   *)
(*    a challenge is drawn from a lazily sampled random oracle over that   *)
(*    sequence (the same sequence always yields the same challenge).       *)
(***************************************************************************)
EXTENDS Integers, Sequences, FiniteSets, TLC

\* ---------------------------------------------------------------------
\* Bounds of the model
\* ---------------------------------------------------------------------

\* The longest proof the adversary submits has MaxExtraBlocks blocks more
\* than an honest proof of the protocol.
MaxExtraBlocks == 1

\* The largest number of bytes a submitted proof has beyond its last whole
\* 32-byte block.
MaxTailBytes == 1

\* ---------------------------------------------------------------------
\* curve25519_dalek: scalars, points and their 32-byte encodings
\* ---------------------------------------------------------------------

GroupOrder == 3

BlockBytes == 32

Scalars == 0 .. (GroupOrder - 1)

Points == 0 .. (GroupOrder - 1)

Blocks == 0 .. GroupOrder

RISTRETTO_BASEPOINT_POINT == 1

\* RistrettoPoint::from_uniform_bytes(0..63): a fixed generator other than G
H_POINT == 2

ScalarAdd(a, b) == (a + b) % GroupOrder

ScalarSub(a, b) == (a + GroupOrder - b) % GroupOrder

ScalarNeg(a) == (GroupOrder - a) % GroupOrder

\* the product taken for the sum
ScalarMul_as_add(a, b) == (a + b) % GroupOrder

ScalarMul(a, b) == (a * b) % GroupOrder

PointAdd(p, q) == (p + q) % GroupOrder

PointSub(p, q) == (p + GroupOrder - q) % GroupOrder

PointNeg(p) == (GroupOrder - p) % GroupOrder

PointScale(s, p) == (s * p) % GroupOrder

\* Option<T>: None is the empty sequence, Some(x) the one-element sequence
None == << >>

Some(x) == << x >>

IsSome(o) == Len(o) = 1

Unwrap(o) == o[1]

\* Scalar::as_bytes
Scalar_as_bytes(s) == s

\* a decoding that reduces modulo the group order
Scalar_from_bytes_mod_order(b) == Some(b % GroupOrder)

\* Scalar::from_canonical_bytes(..).into_option()
Scalar_from_canonical_bytes(b) == IF b < GroupOrder THEN Some(b) ELSE None

\* RistrettoPoint::compress().as_bytes()
Point_compress(p) == p + 1

\* CompressedRistretto(buf).decompress()
CompressedRistretto_decompress(b) == IF b >= 1 THEN Some(b - 1) ELSE None

\* ---------------------------------------------------------------------
\* errors.rs
\* ---------------------------------------------------------------------

Ok(v) == [ok |-> TRUE, val |-> v]

Err(e) == [ok |-> FALSE, err |-> e]

UninstantiatedScalar == [kind |-> "UninstantiatedScalar"]

\* an unbound point reported as an unbound scalar
UninstantiatedPoint_as_scalar == [kind |-> "UninstantiatedScalar"]

UninstantiatedPoint == [kind |-> "UninstantiatedPoint"]

InsufficientScalars == [kind |-> "InsufficientScalars"]

InsufficientPoints == [kind |-> "InsufficientPoints"]

TooManyScalars(e, a) == [kind |-> "TooManyScalars", expected |-> e, actual |-> a]

EquationCheckFailed == [kind |-> "EquationCheckFailed"]

PsiOutputLengthMismatch == [kind |-> "PsiOutputLengthMismatch"]

TranscriptFinalizationFailed == [kind |-> "TranscriptFinalizationFailed"]

TranscriptError == [kind |-> "TranscriptError"]

\* ---------------------------------------------------------------------
\* equations.rs: the symbolic algebra
\* ---------------------------------------------------------------------

SymScalar_Const(s) == [t |-> "Const", v |-> s]

SymScalar_Var(o) == [t |-> "Var", o |-> o]

SymScalar_Add(a, b) == [t |-> "Add", a |-> a, b |-> b]

SymScalar_Sub(a, b) == [t |-> "Sub", a |-> a, b |-> b]

SymScalar_Neg(a) == [t |-> "Neg", a |-> a]

SymScalar_Mul(a, b) == [t |-> "Mul", a |-> a, b |-> b]

SymPoint_Const(p) == [t |-> "Const", v |-> p]

SymPoint_WellKnownConst(n, p) == [t |-> "WellKnownConst", name |-> n, v |-> p]

SymPoint_Var(o) == [t |-> "Var", o |-> o]

SymPoint_Add(a, b) == [t |-> "Add", a |-> a, b |-> b]

SymPoint_Sub(a, b) == [t |-> "Sub", a |-> a, b |-> b]

SymPoint_Neg(a) == [t |-> "Neg", a |-> a]

\* impl Mul<SymPoint> for SymScalar
SymPoint_Scale(s, p) == [t |-> "Scale", s |-> s, p |-> p]

RECURSIVE SymScalar_evaluate(_)
SymScalar_evaluate(x) ==
    CASE x.t = "Const" -> Ok(x.v)
      [] x.t = "Var" -> IF IsSome(x.o) THEN Ok(Unwrap(x.o)) ELSE Err(UninstantiatedScalar)
      [] x.t = "Neg" ->
            LET a == SymScalar_evaluate(x.a)
            IN  IF a.ok THEN Ok(ScalarNeg(a.val)) ELSE a
      [] OTHER ->
            LET a == SymScalar_evaluate(x.a)
            IN  IF ~a.ok THEN a
                ELSE LET b == SymScalar_evaluate(x.b)
                     IN  IF ~b.ok THEN b
                         ELSE CASE x.t = "Add" -> Ok(ScalarAdd(a.val, b.val))
                                [] x.t = "Sub" -> Ok(ScalarSub(a.val, b.val))
                                [] x.t = "Mul" -> Ok(ScalarMul(a.val, b.val))

\* the value bound to a named constant (sigmas/mod.rs builds G and H so)
WellKnownConst_evaluate(x) == Ok(x.v)

RECURSIVE SymPoint_evaluate(_)
SymPoint_evaluate(x) ==
    CASE x.t = "Const" -> Ok(x.v)
      [] x.t = "WellKnownConst" -> WellKnownConst_evaluate(x)
      [] x.t = "Var" -> IF IsSome(x.o) THEN Ok(Unwrap(x.o)) ELSE Err(UninstantiatedPoint)
      [] x.t = "Neg" ->
            LET a == SymPoint_evaluate(x.a)
            IN  IF a.ok THEN Ok(PointNeg(a.val)) ELSE a
      [] x.t = "Scale" ->
            LET s == SymScalar_evaluate(x.s)
            IN  IF ~s.ok THEN s
                ELSE LET p == SymPoint_evaluate(x.p)
                     IN  IF ~p.ok THEN p ELSE Ok(PointScale(s.val, p.val))
      [] OTHER ->
            LET a == SymPoint_evaluate(x.a)
            IN  IF ~a.ok THEN a
                ELSE LET b == SymPoint_evaluate(x.b)
                     IN  IF ~b.ok THEN b
                         ELSE CASE x.t = "Add" -> Ok(PointAdd(a.val, b.val))
                                [] x.t = "Sub" -> Ok(PointSub(a.val, b.val))

\* sigmas/mod.rs
G == SymPoint_WellKnownConst("G", RISTRETTO_BASEPOINT_POINT)

H == SymPoint_WellKnownConst("H", H_POINT)

\* ---------------------------------------------------------------------
\* absorb.rs and sigma-proof-compiler-derive: structural reflection
\* ---------------------------------------------------------------------

\* A witness or instance type is described by its declaration: a leaf type
\* (SymScalar, SymPoint) or a struct with its fields in declaration order.
\* A value of a struct type is the sequence of the values of its fields.
T_SymScalar == [k |-> "SymScalar"]

T_SymPoint == [k |-> "SymPoint"]

T_Struct(fs) == [k |-> "Struct", fields |-> fs]

Field(n, ty) == [name |-> n, ty |-> ty]

RECURSIVE SymWitness_num_scalars(_)
RECURSIVE NumScalarsFold(_, _)
SymWitness_num_scalars(ty) ==
    IF ty.k = "SymScalar" THEN 1 ELSE NumScalarsFold(ty, 1)

NumScalarsFold(ty, i) ==
    IF i > Len(ty.fields) THEN 0
    ELSE SymWitness_num_scalars(ty.fields[i].ty) + NumScalarsFold(ty, i + 1)

\* rand(rng): draws is the stream of scalars the rng yields; the result is
\* the witness built and the rest of the stream.
RECURSIVE SymWitness_rand(_, _)
RECURSIVE RandFold(_, _, _, _)
SymWitness_rand(ty, draws) ==
    IF ty.k = "SymScalar"
    THEN [val |-> SymScalar_Const(Head(draws)), rest |-> Tail(draws)]
    ELSE RandFold(ty, draws, 1, << >>)

RandFold(ty, draws, i, acc) ==
    IF i > Len(ty.fields) THEN [val |-> acc, rest |-> draws]
    ELSE LET r == SymWitness_rand(ty.fields[i].ty, draws)
         IN  RandFold(ty, r.rest, i + 1, Append(acc, r.val))

RECURSIVE SymWitness_values(_, _)
RECURSIVE ValuesFold(_, _, _, _)
SymWitness_values(ty, x) ==
    IF ty.k = "SymScalar"
    THEN IF x.t = "Var" /\ ~IsSome(x.o) THEN Err(UninstantiatedScalar)
         ELSE LET r == SymScalar_evaluate(x)
              IN  IF r.ok THEN Ok(<< r.val >>) ELSE r
    ELSE ValuesFold(ty, x, 1, << >>)

ValuesFold(ty, x, i, values) ==
    IF i > Len(ty.fields) THEN Ok(values)
    ELSE LET r == SymWitness_values(ty.fields[i].ty, x[i])
         IN  IF ~r.ok THEN r ELSE ValuesFold(ty, x, i + 1, values \o r.val)

RECURSIVE SymWitness_from_values(_, _)
RECURSIVE FromValuesFold(_, _, _, _, _)
SymWitness_from_values(ty, scalars) ==
    IF ty.k = "SymScalar"
    THEN IF Len(scalars) = 1 THEN Ok(SymScalar_Var(Some(scalars[1])))
         ELSE Err(TooManyScalars(1, Len(scalars)))
    ELSE FromValuesFold(ty, scalars, 1, 0, << >>)

FromValuesFold(ty, scalars, i, cursor, result) ==
    IF i > Len(ty.fields)
    THEN IF cursor = Len(scalars) THEN Ok(result)
         ELSE Err(TooManyScalars(cursor, Len(scalars)))
    ELSE LET fty == ty.fields[i].ty
         IN  IF fty.k = "SymScalar"
             THEN IF cursor >= Len(scalars) THEN Err(InsufficientScalars)
                  ELSE LET field_values ==
                               SymWitness_from_values(fty, SubSeq(scalars, cursor + 1, cursor + 1))
                       IN  IF ~field_values.ok THEN field_values
                           ELSE FromValuesFold(ty, scalars, i + 1, cursor + 1,
                                               Append(result, field_values.val))
             ELSE LET remaining == SubSeq(scalars, cursor + 1, Len(scalars))
                      field_values == SymWitness_from_values(fty, remaining)
                  IN  IF ~field_values.ok THEN field_values
                      ELSE LET field_scalars == SymWitness_values(fty, field_values.val)
                           IN  IF ~field_scalars.ok THEN field_scalars
                               ELSE FromValuesFold(ty, scalars, i + 1,
                                                   cursor + Len(field_scalars.val),
                                                   Append(result, field_values.val))

RECURSIVE SymInstance_points(_, _)
RECURSIVE PointsFold(_, _, _)
SymInstance_points(ty, x) ==
    CASE ty.k = "SymPoint" -> << x >>
      [] ty.k = "SymScalar" -> << >>
      [] OTHER -> PointsFold(ty, x, 1)

PointsFold(ty, x, i) ==
    IF i > Len(ty.fields) THEN << >>
    ELSE SymInstance_points(ty.fields[i].ty, x[i]) \o PointsFold(ty, x, i + 1)

RECURSIVE SymInstance_scalars(_, _)
RECURSIVE ScalarsFold(_, _, _)
SymInstance_scalars(ty, x) ==
    CASE ty.k = "SymScalar" -> << x >>
      [] ty.k = "SymPoint" -> << >>
      [] OTHER -> ScalarsFold(ty, x, 1)

ScalarsFold(ty, x, i) ==
    IF i > Len(ty.fields) THEN << >>
    ELSE SymInstance_scalars(ty.fields[i].ty, x[i]) \o ScalarsFold(ty, x, i + 1)

\* SymWitness::get_var_name(index)
SymWitness_get_var_name(ty, index) ==
    CASE ty.k = "SymScalar" -> IF index = 0 THEN "s" ELSE "unknown"
      [] Len(ty.fields) = 0 -> "unit"
      [] OTHER ->
            IF index >= Len(ty.fields) THEN "unknown"
            ELSE IF ty.fields[index + 1].ty.k = "SymScalar" THEN ty.fields[index + 1].name
            ELSE "nested_field"

\* SymInstance::num_scalars() and num_points()
RECURSIVE SymInstance_num_scalars(_)
RECURSIVE InstanceNumScalarsFold(_, _)
SymInstance_num_scalars(ty) ==
    CASE ty.k = "SymScalar" -> 1
      [] ty.k = "SymPoint" -> 0
      [] OTHER -> InstanceNumScalarsFold(ty, 1)

InstanceNumScalarsFold(ty, i) ==
    IF i > Len(ty.fields) THEN 0
    ELSE SymInstance_num_scalars(ty.fields[i].ty) + InstanceNumScalarsFold(ty, i + 1)

RECURSIVE SymInstance_num_points(_)
RECURSIVE InstanceNumPointsFold(_, _)
SymInstance_num_points(ty) ==
    CASE ty.k = "SymScalar" -> 0
      [] ty.k = "SymPoint" -> 1
      [] OTHER -> InstanceNumPointsFold(ty, 1)

\* only the record's own point fields are counted
InstanceNumPointsFold_own_fields(ty, i) ==
    Cardinality({ j \in i .. Len(ty.fields) : ty.fields[j].ty.k = "SymPoint" })

InstanceNumPointsFold(ty, i) ==
    IF i > Len(ty.fields) THEN 0
    ELSE SymInstance_num_points(ty.fields[i].ty) + InstanceNumPointsFold(ty, i + 1)

\* SymInstance::get_field_names(): the names of the record's own fields
SymInstance_get_field_names(ty) ==
    CASE ty.k = "SymScalar" -> << "scalar" >>
      [] ty.k = "SymPoint" -> << "point" >>
      [] OTHER -> [i \in 1 .. Len(ty.fields) |-> ty.fields[i].name]

\* A panic (here: a slice whose end lies beyond the input) leaves the
\* function without a Result.
Panic == [ok |-> FALSE, err |-> [kind |-> "panic"]]

\* a nested record's share of the input starts at the first element
NestedSlice_from_start(values, cursor, n) == SubSeq(values, 1, n)

\* &values[cursor..cursor+n], the share of the input a nested record gets
NestedSlice(values, cursor, n) == SubSeq(values, cursor + 1, cursor + n)

\* SymInstance::from_values(scalars, points)
RECURSIVE SymInstance_from_values(_, _, _)
RECURSIVE InstanceFromValuesFold(_, _, _, _, _, _, _)
SymInstance_from_values(ty, scalars, points) ==
    CASE ty.k = "SymScalar" ->
            IF Len(scalars) = 1 /\ Len(points) = 0 THEN Ok(SymScalar_Const(scalars[1]))
            ELSE Err(TooManyScalars(1, Len(scalars)))
      [] ty.k = "SymPoint" ->
            IF Len(scalars) = 0 /\ Len(points) = 1 THEN Ok(SymPoint_Const(points[1]))
            ELSE Err(TooManyScalars(0, Len(scalars)))
      [] OTHER -> InstanceFromValuesFold(ty, scalars, points, 1, 0, 0, << >>)

InstanceFromValuesFold(ty, scalars, points, i, scalar_cursor, point_cursor, result) ==
    IF i > Len(ty.fields)
    THEN IF scalar_cursor = Len(scalars) /\ point_cursor = Len(points) THEN Ok(result)
         ELSE Err(TooManyScalars(scalar_cursor, Len(scalars)))
    ELSE LET fty == ty.fields[i].ty
         IN  CASE fty.k = "SymScalar" ->
                    IF scalar_cursor >= Len(scalars) THEN Err(InsufficientScalars)
                    ELSE LET val == SymInstance_from_values(fty,
                                        SubSeq(scalars, scalar_cursor + 1, scalar_cursor + 1), << >>)
                         IN  IF ~val.ok THEN val
                             ELSE InstanceFromValuesFold(ty, scalars, points, i + 1,
                                      scalar_cursor + 1, point_cursor, Append(result, val.val))
               [] fty.k = "SymPoint" ->
                    IF point_cursor >= Len(points) THEN Err(InsufficientPoints)
                    ELSE LET val == SymInstance_from_values(fty, << >>,
                                        SubSeq(points, point_cursor + 1, point_cursor + 1))
                         IN  IF ~val.ok THEN val
                             ELSE InstanceFromValuesFold(ty, scalars, points, i + 1,
                                      scalar_cursor, point_cursor + 1, Append(result, val.val))
               [] OTHER ->
                    LET field_scalars == SymInstance_num_scalars(fty)
                        field_points == SymInstance_num_points(fty)
                    IN  IF \/ scalar_cursor + field_scalars > Len(scalars)
                           \/ point_cursor + field_points > Len(points)
                        THEN Panic
                        ELSE LET val == SymInstance_from_values(fty,
                                     NestedSlice(scalars, scalar_cursor, field_scalars),
                                     NestedSlice(points, point_cursor, field_points))
                             IN  IF ~val.ok THEN val
                                 ELSE InstanceFromValuesFold(ty, scalars, points, i + 1,
                                          scalar_cursor + field_scalars,
                                          point_cursor + field_points, Append(result, val.val))

\* ---------------------------------------------------------------------
\* sigmas/: the protocols.  Besides the four shipped ones the model has two
\* further implementations of the SigmaProof trait: one whose psi returns 2
\* points and whose f returns 3, and one whose witness is a bare SymScalar
\* and whose instance is a bare SymPoint.
\* ---------------------------------------------------------------------

Protocols == {"schnorr", "okamoto", "chaum", "zero", "mismatch", "bare"}

LABEL(P) ==
    CASE P = "schnorr" -> "schnorr-identity-protocol"
      [] P = "okamoto" -> "okamoto-protocol"
      [] P = "chaum" -> "chaum-protocol"
      [] P = "zero" -> "zero-check-protocol"
      [] P = "mismatch" -> "mismatched-arity-protocol"
      [] P = "bare" -> "bare-scalar-protocol"
      [] P = "tagged" -> "tagged-schnorr-protocol"
      [] P = "nested" -> "nested-okamoto-protocol"

WitnessType(P) ==
    CASE P = "schnorr" -> T_Struct(<< Field("privatekey", T_SymScalar) >>)
      [] P = "okamoto" -> T_Struct(<< Field("x", T_SymScalar), Field("y", T_SymScalar) >>)
      [] P = "chaum" -> T_Struct(<< Field("x", T_SymScalar) >>)
      [] P = "zero" -> T_Struct(<< Field("secret_key", T_SymScalar) >>)
      [] P = "mismatch" -> T_Struct(<< Field("x", T_SymScalar) >>)
      [] P = "bare" -> T_SymScalar
      [] P = "tagged" -> T_Struct(<< Field("privatekey", T_SymScalar) >>)
      [] P = "nested" -> T_Struct(<< Field("opening",
                                           T_Struct(<< Field("value", T_SymScalar),
                                                       Field("blinding", T_SymScalar) >>)) >>)

InstanceType(P) ==
    CASE P = "schnorr" -> T_Struct(<< Field("pubkey", T_SymPoint) >>)
      [] P = "okamoto" -> T_Struct(<< Field("point", T_SymPoint) >>)
      [] P = "chaum" -> T_Struct(<< Field("point1", T_SymPoint), Field("point2", T_SymPoint) >>)
      [] P = "zero" -> T_Struct(<< Field("pubkey", T_SymPoint),
                                   Field("commitment", T_SymPoint),
                                   Field("handle", T_SymPoint) >>)
      [] P = "mismatch" -> T_Struct(<< Field("point", T_SymPoint) >>)
      [] P = "bare" -> T_SymPoint
      [] P = "tagged" -> T_Struct(<< Field("tag", T_SymScalar), Field("pubkey", T_SymPoint) >>)
      [] P = "nested" -> T_Struct(<< Field("commitment", T_SymPoint) >>)

Schnorr_f(instance) == << instance[1] >>

Schnorr_psi(witness, instance) ==
    << SymPoint_Scale(witness[1], SymPoint_Const(RISTRETTO_BASEPOINT_POINT)) >>

Okamoto_f(instance) == << instance[1] >>

Okamoto_psi(witness, instance) ==
    << SymPoint_Add(SymPoint_Scale(witness[1], G), SymPoint_Scale(witness[2], H)) >>

Chaum_f(instance) == << instance[1], instance[2] >>

Chaum_psi(witness, instance) ==
    << SymPoint_Scale(witness[1], G), SymPoint_Scale(witness[1], H) >>

ZeroCheck_f(instance) == << instance[2], instance[3] >>

ZeroCheck_psi(witness, instance) ==
    << SymPoint_Scale(witness[1], SymPoint_Const(RISTRETTO_BASEPOINT_POINT)),
       SymPoint_Scale(witness[1], instance[1]) >>

Mismatch_f(instance) ==
    << instance[1], instance[1], SymPoint_Add(instance[1], instance[1]) >>

Mismatch_psi(witness, instance) ==
    << SymPoint_Scale(witness[1], G), SymPoint_Scale(witness[1], H) >>

Bare_f(instance) == << instance >>

Bare_psi(witness, instance) == << SymPoint_Scale(witness, G) >>

\* a Schnorr proof for an instance that also carries a scalar, which f
\* does not return
Tagged_f(instance) == << instance[2] >>

Tagged_psi(witness, instance) ==
    << SymPoint_Scale(witness[1], SymPoint_Const(RISTRETTO_BASEPOINT_POINT)) >>

\* an Okamoto proof whose two witness scalars sit in a nested witness
Nested_f(instance) == << instance[1] >>

Nested_psi(witness, instance) ==
    << SymPoint_Add(SymPoint_Scale(witness[1][1], G), SymPoint_Scale(witness[1][2], H)) >>

f(P, instance) ==
    CASE P = "schnorr" -> Schnorr_f(instance)
      [] P = "okamoto" -> Okamoto_f(instance)
      [] P = "chaum" -> Chaum_f(instance)
      [] P = "zero" -> ZeroCheck_f(instance)
      [] P = "mismatch" -> Mismatch_f(instance)
      [] P = "bare" -> Bare_f(instance)
      [] P = "tagged" -> Tagged_f(instance)
      [] P = "nested" -> Nested_f(instance)

psi(P, witness, instance) ==
    CASE P = "schnorr" -> Schnorr_psi(witness, instance)
      [] P = "okamoto" -> Okamoto_psi(witness, instance)
      [] P = "chaum" -> Chaum_psi(witness, instance)
      [] P = "zero" -> ZeroCheck_psi(witness, instance)
      [] P = "mismatch" -> Mismatch_psi(witness, instance)
      [] P = "bare" -> Bare_psi(witness, instance)
      [] P = "tagged" -> Tagged_psi(witness, instance)
      [] P = "nested" -> Nested_psi(witness, instance)

\* ---------------------------------------------------------------------
\* transcript.rs: ProofTranscript
\* ---------------------------------------------------------------------

\* merlin::Transcript::new(label)
\* a sponge that does not absorb its label
Merlin_new_unlabelled(label) == [label |-> "", messages |-> << >>]

Merlin_new(label) == [label |-> label, messages |-> << >>]

\* merlin::Transcript::append_message(label, bytes)
Merlin_append_message(state, label, bytes) ==
    [state EXCEPT !.messages = Append(@, << label, bytes >>)]

\* merlin::Transcript::challenge_bytes(label, buf): the sponge after the
\* request for 64 bytes has been absorbed; the bytes themselves come from
\* the oracle.
Merlin_challenge_bytes(state, label) ==
    [state EXCEPT !.messages = Append(@, << label, 64 >>)]

new_prover(label) ==
    [state |-> Merlin_new(label), proof |-> << >>, position |-> 0,
     is_prover |-> TRUE, panicked |-> FALSE]

\* a verifier transcript made in the prover's mode
new_verifier_as_prover(label, proof) ==
    [state |-> Merlin_new(label), proof |-> proof, position |-> 0,
     is_prover |-> TRUE, panicked |-> FALSE]

new_verifier(label, proof) ==
    [state |-> Merlin_new(label), proof |-> proof, position |-> 0,
     is_prover |-> FALSE, panicked |-> FALSE]

common_absorb_scalar(t, label, scalar) ==
    [t EXCEPT !.state = Merlin_append_message(@, label, Scalar_as_bytes(scalar))]

common_absorb_point(t, label, point) ==
    [t EXCEPT !.state = Merlin_append_message(@, label, Point_compress(point))]

\* a write that puts the block in front of the buffer
Cursor_write_all_in_front(t, block) ==
    [t EXCEPT !.proof = << block >> \o @, !.position = @ + 1]

\* Cursor<Vec<u8>>::write_all of one 32-byte block at the cursor
Cursor_write_all(t, block) ==
    [t EXCEPT !.proof = SubSeq(@, 1, t.position) \o << block >>
                            \o SubSeq(@, t.position + 2, Len(@)),
              !.position = @ + 1]

\* a scalar absorbed into the sponge but not written to the proof
prover_absorb_scalar_no_write(t, label, scalar) ==
    IF ~t.is_prover THEN [t EXCEPT !.panicked = TRUE]
    ELSE common_absorb_scalar(t, label, scalar)

prover_absorb_scalar(t, label, scalar) ==
    IF ~t.is_prover THEN [t EXCEPT !.panicked = TRUE]
    ELSE Cursor_write_all(common_absorb_scalar(t, label, scalar), Scalar_as_bytes(scalar))

prover_absorb_point(t, label, point) ==
    IF ~t.is_prover THEN [t EXCEPT !.panicked = TRUE]
    ELSE Cursor_write_all(common_absorb_point(t, label, point), Point_compress(point))

\* Cursor<Vec<u8>>::read_exact of one 32-byte block: None at the end of the
\* buffer, otherwise the block under the cursor.
Cursor_read_exact(t) ==
    IF t.position + 1 > Len(t.proof) THEN None ELSE Some(t.proof[t.position + 1])

\* The result of a receive operation: the transcript after it and the
\* Option it returns.
RECURSIVE ReceiveScalarsLoop(_, _, _)
ReceiveScalarsLoop(t, label, scalars) ==
    LET buf == Cursor_read_exact(t)
    IN  IF ~IsSome(buf) THEN [t |-> t, ret |-> Some(scalars)]
        ELSE LET t1 == [t EXCEPT !.position = @ + 1]
                 scalar == Scalar_from_canonical_bytes(Unwrap(buf))
             IN  IF ~IsSome(scalar) THEN [t |-> t1, ret |-> None]
                 ELSE ReceiveScalarsLoop(common_absorb_scalar(t1, label, Unwrap(scalar)),
                                         label, Append(scalars, Unwrap(scalar)))

\* a reading that stops at a non-canonical scalar instead of failing
verifier_receives_scalars_lenient(t, label) ==
    LET r == ReceiveScalarsLoop(t, label, << >>)
    IN  IF IsSome(r.ret) THEN r ELSE [t |-> r.t, ret |-> Some(<< >>)]

verifier_receives_all_scalars(t, label) ==
    IF t.is_prover THEN [t |-> [t EXCEPT !.panicked = TRUE], ret |-> None]
    ELSE ReceiveScalarsLoop(t, label, << >>)

RECURSIVE ReceivePointsLoop(_, _, _, _)
ReceivePointsLoop(t, label, count, points) ==
    IF Len(points) = count THEN [t |-> t, ret |-> Some(points)]
    ELSE LET buf == Cursor_read_exact(t)
         IN  IF ~IsSome(buf) THEN [t |-> t, ret |-> None]
             ELSE LET t1 == [t EXCEPT !.position = @ + 1]
                      point == CompressedRistretto_decompress(Unwrap(buf))
                  IN  IF ~IsSome(point) THEN [t |-> t1, ret |-> None]
                      ELSE ReceivePointsLoop(common_absorb_point(t1, label, Unwrap(point)),
                                             label, count, Append(points, Unwrap(point)))

verifier_receive_points(t, label, count) ==
    IF t.is_prover THEN [t |-> [t EXCEPT !.panicked = TRUE], ret |-> None]
    ELSE ReceivePointsLoop(t, label, count, << >>)

\* challenge(label): the transcript after the draw; the scalar drawn is
\* the oracle's answer for the sponge state ChallengeQuery(t, label).
ChallengeQuery(t, label) == Merlin_challenge_bytes(t.state, label)

challenge(t, label) == [t EXCEPT !.state = Merlin_challenge_bytes(@, label)]

finalize(t) == t.proof

\* ---------------------------------------------------------------------
\* compiler.rs: SigmaProof::prove and SigmaProof::verify
\* ---------------------------------------------------------------------

\* A step that can fail: the transcript after it and its Result.
Step(t, ret) == [t |-> t, ret |-> ret]

RECURSIVE AbsorbPointsLoop(_, _, _)
AbsorbPointsLoop(t, points, i) ==
    IF i > Len(points) THEN Step(t, Ok(<< >>))
    ELSE LET p == SymPoint_evaluate(points[i])
         IN  IF ~p.ok THEN Step(t, p)
             ELSE AbsorbPointsLoop(common_absorb_point(t, "", p.val), points, i + 1)

RECURSIVE AbsorbScalarsLoop(_, _, _)
AbsorbScalarsLoop(t, scalars, i) ==
    IF i > Len(scalars) THEN Step(t, Ok(<< >>))
    ELSE LET s == SymScalar_evaluate(scalars[i])
         IN  IF ~s.ok THEN Step(t, s)
             ELSE AbsorbScalarsLoop(common_absorb_scalar(t, "", s.val), scalars, i + 1)

\* the instance absorbed scalars first
Prove_absorb_instance_scalars_first(t, P, instance) ==
    LET scs == AbsorbScalarsLoop(t, SymInstance_scalars(InstanceType(P), instance), 1)
    IN  IF ~scs.ret.ok THEN scs
        ELSE AbsorbPointsLoop(scs.t, SymInstance_points(InstanceType(P), instance), 1)

\* prove, lines 153-159: absorb instance, not f(instance)
Prove_absorb_instance(t, P, instance) ==
    LET pts == AbsorbPointsLoop(t, SymInstance_points(InstanceType(P), instance), 1)
    IN  IF ~pts.ret.ok THEN pts
        ELSE AbsorbScalarsLoop(pts.t, SymInstance_scalars(InstanceType(P), instance), 1)

RECURSIVE CommitLoop(_, _, _)
CommitLoop(t, commited_alphas, i) ==
    IF i > Len(commited_alphas) THEN Step(t, Ok(<< >>))
    ELSE LET p == SymPoint_evaluate(commited_alphas[i])
         IN  IF ~p.ok THEN Step(t, p)
             ELSE CommitLoop(prover_absorb_point(t, "r", p.val), commited_alphas, i + 1)

\* prove, round 1 (lines 161-167)
Prove_round1(t, P, alphas, instance) == CommitLoop(t, psi(P, alphas, instance), 1)

\* a response that subtracts the blinding value
Response_sub(s, e, a) == ScalarSub(ScalarMul(s, e), a)

\* the i-th response s * e + a
Response(s, e, a) == ScalarAdd(ScalarMul(s, e), a)

Min(a, b) == IF a <= b THEN a ELSE b

\* responses that pair the i-th witness scalar with the blinding scalars
\* taken from the end
RECURSIVE RespondLoop_crossed(_, _, _, _, _)
RespondLoop_crossed(t, ws, as, e, i) ==
    IF i > Min(Len(ws), Len(as)) THEN t
    ELSE RespondLoop_crossed(prover_absorb_scalar(t, "z", Response(ws[i], e, as[Len(as) + 1 - i])),
                             ws, as, e, i + 1)

RECURSIVE RespondLoop(_, _, _, _, _)
RespondLoop(t, ws, as, e, i) ==
    IF i > Min(Len(ws), Len(as)) THEN t
    ELSE RespondLoop(prover_absorb_scalar(t, "z", Response(ws[i], e, as[i])), ws, as, e, i + 1)

\* prove, round 3 and the return (lines 172-182)
Prove_round3(t, P, witness, alphas, e) ==
    LET ws == SymWitness_values(WitnessType(P), witness)
    IN  IF ~ws.ok THEN Step(t, ws)
        ELSE LET as == SymWitness_values(WitnessType(P), alphas)
             IN  IF ~as.ok THEN Step(t, as)
                 ELSE LET t1 == RespondLoop(t, ws.val, as.val, e, 1)
                      IN  Step(t1, Ok(finalize(t1)))

\* A proof as verify receives it: whole 32-byte blocks and the bytes left
\* over after the last whole block.
Proof(blocks, tail) == [blocks |-> blocks, tail |-> tail]

ProofLen(proof) == BlockBytes * Len(proof.blocks) + proof.tail

\* no sanity check of the length
LengthCheck_none(proof) == TRUE

\* verify, the sanity check (line 187)
LengthCheck(proof) == ProofLen(proof) % BlockBytes = 0

RECURSIVE EvaluateAll(_, _, _)
EvaluateAll(points, i, acc) ==
    IF i > Len(points) THEN Ok(acc)
    ELSE LET p == SymPoint_evaluate(points[i])
         IN  IF ~p.ok THEN p ELSE EvaluateAll(points, i + 1, Append(acc, p.val))

\* verify, lines 194-198: evaluate f(instance)
Verify_big_x_points(P, instance) == EvaluateAll(f(P, instance), 1, << >>)

\* an absorption of f(instance) in place of the instance
Verify_absorb_f_of_instance(t, P, instance) == AbsorbPointsLoop(t, f(P, instance), 1)

\* verify, lines 200-206: absorb instance, not f(instance)
Verify_absorb_instance(t, P, instance) ==
    LET pts == AbsorbPointsLoop(t, SymInstance_points(InstanceType(P), instance), 1)
    IN  IF ~pts.ret.ok THEN pts
        ELSE AbsorbScalarsLoop(pts.t, SymInstance_scalars(InstanceType(P), instance), 1)

\* commitments absorbed under the label of the responses
Verify_receive_A_label_z(t, count) ==
    LET r == verifier_receive_points(t, "z", count)
    IN  Step(r.t, IF IsSome(r.ret) THEN Ok(Unwrap(r.ret)) ELSE Err(TranscriptError))

\* a reading of the commitments whose failure is not reported
Verify_receive_A_unreported(t, count) ==
    LET r == verifier_receive_points(t, "r", count)
    IN  Step(r.t, IF IsSome(r.ret) THEN Ok(Unwrap(r.ret)) ELSE Ok(<< >>))

\* verify, lines 208-211: -> A
Verify_receive_A(t, count) ==
    LET r == verifier_receive_points(t, "r", count)
    IN  Step(r.t, IF IsSome(r.ret) THEN Ok(Unwrap(r.ret)) ELSE Err(TranscriptError))

\* verify, lines 216-219: -> sigma
Verify_receive_sigmas(t) ==
    LET r == verifier_receives_all_scalars(t, "z")
    IN  Step(r.t, IF IsSome(r.ret) THEN Ok(Unwrap(r.ret)) ELSE Err(TranscriptError))

\* a reassembly that ignores the scalars beyond the witness's count
Verify_sigmas_truncated(P, sigmas) ==
    SymWitness_from_values(WitnessType(P),
        SubSeq(sigmas, 1, Min(Len(sigmas), SymWitness_num_scalars(WitnessType(P)))))

\* verify, line 221
Verify_sigmas_as_input(P, sigmas) == SymWitness_from_values(WitnessType(P), sigmas)

\* no comparison of the two lengths
Verify_length_check_none(big_x_points, psi_output) == TRUE

\* verify, lines 225-228
Verify_length_check(big_x_points, psi_output) == Len(big_x_points) = Len(psi_output)

\* the commitment and the instance point exchanged
Verify_rhs_swapped(big_a_i, e, big_x_i) == PointAdd(big_x_i, PointScale(e, big_a_i))

\* verify, line 231: rhs = A_i + e * X_i
Verify_rhs(big_a_i, e, big_x_i) == PointAdd(big_a_i, PointScale(e, big_x_i))

\* a check of the first equation only
Verify_checks_first_only(big_x_points, big_a, psi_output, e, i) ==
    IF Min(Len(big_x_points), Min(Len(big_a), Len(psi_output))) = 0 THEN Ok(<< >>)
    ELSE LET psi_i == SymPoint_evaluate(psi_output[1])
         IN  IF ~psi_i.ok THEN psi_i
             ELSE IF psi_i.val # Verify_rhs(big_a[1], e, big_x_points[1])
                  THEN Err(EquationCheckFailed)
                  ELSE Ok(<< >>)

\* verify, lines 230-237: the equations, in index order over the zip of the
\* three vectors
RECURSIVE Verify_checks(_, _, _, _, _)
Verify_checks(big_x_points, big_a, psi_output, e, i) ==
    IF i > Min(Len(big_x_points), Min(Len(big_a), Len(psi_output))) THEN Ok(<< >>)
    ELSE LET psi_i == SymPoint_evaluate(psi_output[i])
         IN  IF ~psi_i.ok THEN psi_i
             ELSE IF psi_i.val # Verify_rhs(big_a[i], e, big_x_points[i])
                  THEN Err(EquationCheckFailed)
                  ELSE Verify_checks(big_x_points, big_a, psi_output, e, i + 1)

\* ---------------------------------------------------------------------
\* The state machine: one run of prove, then runs of verify
\* ---------------------------------------------------------------------

VARIABLES
    proto,      \* the protocol (the implementation of SigmaProof) in use
    prover,     \* the locals of the call of prove
    verifier,   \* the locals of the current call of verify
    baseline,   \* the finished call of verify on the prover's own output, if
                \* a second call on an altered input has been started
    oracle,     \* the challenges drawn so far, by sponge state
    reflect     \* a call of a function of SymWitness or SymInstance: its
                \* type, its input and what it has returned

vars == << proto, prover, verifier, baseline, oracle, reflect >>

IdleProver ==
    [pc |-> "idle", witness |-> None, instance |-> None, transcript |-> None,
     alphas |-> None, e |-> None, query |-> None, result |-> None]

\* no function of SymWitness or SymInstance has been called on its own
IdleReflect ==
    [op |-> "idle", ty |-> T_SymScalar, scalars |-> << >>, points |-> << >>,
     x |-> None, out |-> None, back |-> None]

IdleVerifier ==
    [pc |-> "idle", instance |-> None, proof |-> None, transcript |-> None,
     big_x_points |-> None, big_a |-> None, e |-> None, query |-> None,
     sigmas |-> None, sigmas_as_input |-> None, psi_output |-> None,
     result |-> None]

\* The inputs: witnesses with every leaf bound, instances whose leaves are
\* bound points or scalars or unbound variables.
SeqsOfLen(S, n) == [1 .. n -> S]

SeqsUpTo(S, n) == UNION { SeqsOfLen(S, k) : k \in 0 .. n }

WitnessValues(ty) ==
    { SymWitness_rand(ty, draws).val : draws \in SeqsOfLen(Scalars, SymWitness_num_scalars(ty)) }

PointLeaves == { SymPoint_Const(p) : p \in Points } \cup { SymPoint_Var(None) }

ScalarLeaves == { SymScalar_Const(s) : s \in Scalars } \cup { SymScalar_Var(None) }

RECURSIVE InstanceValues(_)
InstanceValues(ty) ==
    CASE ty.k = "SymPoint" -> PointLeaves
      [] ty.k = "SymScalar" -> ScalarLeaves
      [] OTHER ->
            LET n == Len(ty.fields)
                all == UNION { InstanceValues(ty.fields[i].ty) : i \in 1 .. n }
            IN  { x \in SeqsOfLen(all, n) :
                    \A i \in 1 .. n : x[i] \in InstanceValues(ty.fields[i].ty) }

\* the leaves of an instance, points then scalars
Leaves(ty, x) == SymInstance_points(ty, x) \o SymInstance_scalars(ty, x)

FullyInstantiated(ty, x) ==
    \A i \in 1 .. Len(Leaves(ty, x)) : Leaves(ty, x)[i].t # "Var" \/ IsSome(Leaves(ty, x)[i].o)

Init ==
    /\ proto \in Protocols
    /\ prover = IdleProver
    /\ verifier = IdleVerifier
    /\ baseline = None
    /\ oracle = [q \in {} |-> 0]
    /\ reflect = IdleReflect

\* ----- prove ----------------------------------------------------------

\* prove is called: line 151
ProveStart ==
    /\ prover.pc = "idle"
    /\ verifier.pc = "idle"
    /\ \E w \in WitnessValues(WitnessType(proto)), x \in InstanceValues(InstanceType(proto)) :
          prover' = [IdleProver EXCEPT !.pc = "absorb_instance",
                                       !.witness = Some(w),
                                       !.instance = Some(x),
                                       !.transcript = Some(new_prover(LABEL(proto)))]
    /\ UNCHANGED << reflect, proto, verifier, baseline, oracle >>

\* lines 153-159
ProveAbsorbInstance ==
    /\ prover.pc = "absorb_instance"
    /\ LET r == Prove_absorb_instance(Unwrap(prover.transcript), proto, Unwrap(prover.instance))
       IN  prover' = IF r.ret.ok
                     THEN [prover EXCEPT !.pc = "round1", !.transcript = Some(r.t)]
                     ELSE [prover EXCEPT !.pc = "done", !.transcript = None,
                                         !.result = Some(r.ret)]
    /\ UNCHANGED << reflect, proto, verifier, baseline, oracle >>

\* lines 161-167
ProveRound1 ==
    /\ prover.pc = "round1"
    /\ \E draws \in SeqsOfLen(Scalars, SymWitness_num_scalars(WitnessType(proto))) :
          LET alphas == SymWitness_rand(WitnessType(proto), draws).val
              r == Prove_round1(Unwrap(prover.transcript), proto, alphas, Unwrap(prover.instance))
          IN  prover' = IF r.ret.ok
                        THEN [prover EXCEPT !.pc = "round2", !.alphas = Some(alphas),
                                            !.transcript = Some(r.t)]
                        ELSE [prover EXCEPT !.pc = "done", !.alphas = Some(alphas),
                                            !.transcript = None, !.result = Some(r.ret)]
    /\ UNCHANGED << reflect, proto, verifier, baseline, oracle >>

\* line 170
ProveRound2 ==
    /\ prover.pc = "round2"
    /\ LET t == Unwrap(prover.transcript)
           q == ChallengeQuery(t, "e")
       IN  \E e \in Scalars :
              /\ q \in DOMAIN oracle => e = oracle[q]
              /\ oracle' = IF q \in DOMAIN oracle THEN oracle ELSE oracle @@ (q :> e)
              /\ prover' = [prover EXCEPT !.pc = "round3", !.e = Some(e), !.query = Some(q),
                                          !.transcript = Some(challenge(t, "e"))]
    /\ UNCHANGED << reflect, proto, verifier, baseline >>

\* lines 172-182
ProveRound3 ==
    /\ prover.pc = "round3"
    /\ LET r == Prove_round3(Unwrap(prover.transcript), proto, Unwrap(prover.witness),
                             Unwrap(prover.alphas), Unwrap(prover.e))
       IN  prover' = [prover EXCEPT !.pc = "done", !.transcript = None, !.result = Some(r.ret)]
    /\ UNCHANGED << reflect, proto, verifier, baseline, oracle >>

\* ----- verify ---------------------------------------------------------

\* verify is called: lines 186-192
Verify_begin(P, instance, proof) ==
    IF ~LengthCheck(proof)
    THEN [IdleVerifier EXCEPT !.pc = "done", !.instance = Some(instance), !.proof = Some(proof),
                              !.result = Some(Err(TranscriptFinalizationFailed))]
    ELSE [IdleVerifier EXCEPT !.pc = "eval_f", !.instance = Some(instance), !.proof = Some(proof),
                              !.transcript = Some(new_verifier(LABEL(P), proof.blocks))]

ProverReturnedProof == prover.pc = "done" /\ Unwrap(prover.result).ok

\* the proof prove returned, as bytes
ProverProof == Proof(Unwrap(prover.result).val, 0)

\* verify is called on the instance given to prove and the proof it returned
VerifyHonest ==
    /\ ProverReturnedProof
    /\ verifier.pc = "idle"
    /\ verifier' = Verify_begin(proto, Unwrap(prover.instance), ProverProof)
    /\ UNCHANGED << reflect, proto, prover, baseline, oracle >>

\* The alterations of a proof: blocks replaced, the last block dropped, a
\* block appended, bytes after the last block.
TamperedProofs(proof) ==
    LET bs == proof.blocks
        replaced == { Proof(cs, 0) : cs \in SeqsOfLen(Blocks, Len(bs)) }
        dropped == IF Len(bs) > 0 THEN { Proof(SubSeq(bs, 1, Len(bs) - 1), 0) } ELSE {}
        appended == { Proof(Append(bs, b), 0) : b \in Blocks }
        tailed == { Proof(bs, n) : n \in 1 .. MaxTailBytes }
    IN  (replaced \ { proof }) \cup dropped \cup appended \cup tailed

\* The alterations of an instance: leaves replaced.
TamperedInstances(ty, x) == InstanceValues(ty) \ { x }

\* after verify has run on the prover's output it is called again, on an
\* altered proof or on an altered instance
VerifyTampered ==
    /\ ProverReturnedProof
    /\ verifier.pc = "done"
    /\ baseline = None
    /\ baseline' = Some(verifier)
    /\ \/ \E p \in TamperedProofs(ProverProof) :
             verifier' = Verify_begin(proto, Unwrap(prover.instance), p)
       \/ \E x \in TamperedInstances(InstanceType(proto), Unwrap(prover.instance)) :
             verifier' = Verify_begin(proto, x, ProverProof)
    /\ UNCHANGED << reflect, proto, prover, oracle >>

\* the length of an honest proof of protocol P for an instance
HonestBlocks(P, instance) == Len(f(P, instance)) + SymWitness_num_scalars(WitnessType(P))

\* verify is called on an arbitrary instance and arbitrary bytes
VerifyForged ==
    /\ prover.pc = "idle"
    /\ verifier.pc = "idle"
    /\ \E x \in InstanceValues(InstanceType(proto)) :
          \E bs \in SeqsUpTo(Blocks, HonestBlocks(proto, x) + MaxExtraBlocks),
             n \in 0 .. MaxTailBytes :
                verifier' = Verify_begin(proto, x, Proof(bs, n))
    /\ UNCHANGED << reflect, proto, prover, baseline, oracle >>

Fail(v, err) == [v EXCEPT !.pc = "done", !.result = Some(err)]

\* lines 194-198
VerifyEvalF ==
    /\ verifier.pc = "eval_f"
    /\ LET r == Verify_big_x_points(proto, Unwrap(verifier.instance))
       IN  verifier' = IF r.ok
                       THEN [verifier EXCEPT !.pc = "absorb_instance",
                                             !.big_x_points = Some(r.val)]
                       ELSE Fail(verifier, r)
    /\ UNCHANGED << reflect, proto, prover, baseline, oracle >>

\* lines 200-206
VerifyAbsorbInstance ==
    /\ verifier.pc = "absorb_instance"
    /\ LET r == Verify_absorb_instance(Unwrap(verifier.transcript), proto,
                                       Unwrap(verifier.instance))
       IN  verifier' = IF r.ret.ok
                       THEN [verifier EXCEPT !.pc = "receive_A", !.transcript = Some(r.t)]
                       ELSE Fail([verifier EXCEPT !.transcript = Some(r.t)], r.ret)
    /\ UNCHANGED << reflect, proto, prover, baseline, oracle >>

\* lines 208-211
VerifyReceiveA ==
    /\ verifier.pc = "receive_A"
    /\ LET r == Verify_receive_A(Unwrap(verifier.transcript), Len(Unwrap(verifier.big_x_points)))
       IN  verifier' = IF r.ret.ok
                       THEN [verifier EXCEPT !.pc = "challenge", !.transcript = Some(r.t),
                                             !.big_a = Some(r.ret.val)]
                       ELSE Fail([verifier EXCEPT !.transcript = Some(r.t)], r.ret)
    /\ UNCHANGED << reflect, proto, prover, baseline, oracle >>

\* a challenge that is drawn afresh instead of derived from the sponge
VerifyChallenge_fresh ==
    /\ verifier.pc = "challenge"
    /\ LET t == Unwrap(verifier.transcript)
           q == ChallengeQuery(t, "e")
       IN  \E e \in Scalars :
              /\ oracle' = IF q \in DOMAIN oracle THEN oracle ELSE oracle @@ (q :> e)
              /\ verifier' = [verifier EXCEPT !.pc = "receive_sigmas", !.e = Some(e),
                                              !.query = Some(q),
                                              !.transcript = Some(challenge(t, "e"))]
    /\ UNCHANGED << reflect, proto, prover, baseline >>

\* lines 213-214
VerifyChallenge ==
    /\ verifier.pc = "challenge"
    /\ LET t == Unwrap(verifier.transcript)
           q == ChallengeQuery(t, "e")
       IN  \E e \in Scalars :
              /\ q \in DOMAIN oracle => e = oracle[q]
              /\ oracle' = IF q \in DOMAIN oracle THEN oracle ELSE oracle @@ (q :> e)
              /\ verifier' = [verifier EXCEPT !.pc = "receive_sigmas", !.e = Some(e),
                                              !.query = Some(q),
                                              !.transcript = Some(challenge(t, "e"))]
    /\ UNCHANGED << reflect, proto, prover, baseline >>

\* lines 216-221
VerifyReceiveSigmas ==
    /\ verifier.pc = "receive_sigmas"
    /\ LET r == Verify_receive_sigmas(Unwrap(verifier.transcript))
           v1 == [verifier EXCEPT !.transcript = Some(r.t)]
       IN  IF ~r.ret.ok THEN verifier' = Fail(v1, r.ret)
           ELSE LET w == Verify_sigmas_as_input(proto, r.ret.val)
                    v2 == [v1 EXCEPT !.sigmas = Some(r.ret.val)]
                IN  verifier' = IF w.ok
                                THEN [v2 EXCEPT !.pc = "psi", !.sigmas_as_input = Some(w.val)]
                                ELSE Fail(v2, w)
    /\ UNCHANGED << reflect, proto, prover, baseline, oracle >>

\* lines 223-228
VerifyPsi ==
    /\ verifier.pc = "psi"
    /\ LET psi_output == psi(proto, Unwrap(verifier.sigmas_as_input), Unwrap(verifier.instance))
           v1 == [verifier EXCEPT !.psi_output = Some(psi_output)]
       IN  verifier' = IF Verify_length_check(Unwrap(verifier.big_x_points), psi_output)
                       THEN [v1 EXCEPT !.pc = "checks"]
                       ELSE Fail(v1, Err(PsiOutputLengthMismatch))
    /\ UNCHANGED << reflect, proto, prover, baseline, oracle >>

\* lines 230-237
VerifyChecks ==
    /\ verifier.pc = "checks"
    /\ verifier' = Fail(verifier, Verify_checks(Unwrap(verifier.big_x_points),
                                                Unwrap(verifier.big_a),
                                                Unwrap(verifier.psi_output),
                                                Unwrap(verifier.e), 1))
    /\ UNCHANGED << reflect, proto, prover, baseline, oracle >>

\* prove is called a second time on the same witness and instance
ProveRepeat ==
    /\ prover.pc = "done"
    /\ verifier.pc = "idle"
    /\ baseline = None
    /\ baseline' = Some(prover)
    /\ prover' = [IdleProver EXCEPT !.pc = "absorb_instance",
                                    !.witness = prover.witness,
                                    !.instance = prover.instance,
                                    !.transcript = Some(new_prover(LABEL(proto)))]
    /\ UNCHANGED << reflect, proto, verifier, oracle >>

\* verify is called a second time on the same instance and proof
VerifyRepeat ==
    /\ verifier.pc = "done"
    /\ baseline = None
    /\ baseline' = Some(verifier)
    /\ verifier' = Verify_begin(proto, Unwrap(verifier.instance), Unwrap(verifier.proof))
    /\ UNCHANGED << reflect, proto, prover, oracle >>

Next ==
    \/ ProveStart
    \/ ProveAbsorbInstance
    \/ ProveRound1
    \/ ProveRound2
    \/ ProveRound3
    \/ VerifyHonest
    \/ VerifyTampered
    \/ VerifyForged
    \/ VerifyEvalF
    \/ VerifyAbsorbInstance
    \/ VerifyReceiveA
    \/ VerifyChallenge
    \/ VerifyReceiveSigmas
    \/ VerifyPsi
    \/ VerifyChecks

Spec == Init /\ [][Next]_vars

\* the LABEL of a second implementation of SigmaProof that has the types,
\* the f and the psi of the protocol in use
TwinLabel == "twin-protocol"

\* verify of the second implementation is called on the instance given to
\* prove and the proof it returned
VerifyOtherLabel ==
    /\ ProverReturnedProof
    /\ verifier.pc = "idle"
    /\ verifier' = [Verify_begin(proto, Unwrap(prover.instance), ProverProof)
                       EXCEPT !.transcript = Some(new_verifier(TwinLabel, ProverProof.blocks))]
    /\ UNCHANGED << reflect, proto, prover, baseline, oracle >>

NextLabel ==
    \/ ProveStart
    \/ ProveAbsorbInstance
    \/ ProveRound1
    \/ ProveRound2
    \/ ProveRound3
    \/ VerifyOtherLabel
    \/ VerifyEvalF
    \/ VerifyAbsorbInstance
    \/ VerifyReceiveA
    \/ VerifyChallenge
    \/ VerifyReceiveSigmas
    \/ VerifyPsi
    \/ VerifyChecks

SpecLabel == Init /\ [][NextLabel]_vars

\* prove and verify, each possibly called twice on the same input
NextRepeat ==
    \/ ProveStart
    \/ ProveAbsorbInstance
    \/ ProveRound1
    \/ ProveRound2
    \/ ProveRound3
    \/ ProveRepeat
    \/ VerifyHonest
    \/ VerifyForged
    \/ VerifyRepeat
    \/ VerifyEvalF
    \/ VerifyAbsorbInstance
    \/ VerifyReceiveA
    \/ VerifyChallenge
    \/ VerifyReceiveSigmas
    \/ VerifyPsi
    \/ VerifyChecks

SpecRepeat == Init /\ [][NextRepeat]_vars

\* protocols whose instance has a leaf that f does not return: a point
\* (zero) or a scalar (tagged); okamoto has two responses, nested has them
\* in a nested witness
\* ---------------------------------------------------------------------
\* verify called on arbitrary instances and arbitrary bytes, for protocols
\* that between them can fail at every step: two equations (chaum), an
\* output of the wrong length (mismatch), a bare scalar witness (bare), an
\* instance scalar (tagged) and a nested witness (nested)
\* ---------------------------------------------------------------------

VerifyProtocols == {"chaum", "mismatch", "bare", "tagged", "nested"}

InitVerify ==
    /\ proto \in VerifyProtocols
    /\ prover = IdleProver
    /\ verifier = IdleVerifier
    /\ baseline = None
    /\ oracle = [q \in {} |-> 0]
    /\ reflect = IdleReflect

NextVerify ==
    \/ VerifyForged
    \/ VerifyEvalF
    \/ VerifyAbsorbInstance
    \/ VerifyReceiveA
    \/ VerifyChallenge
    \/ VerifyReceiveSigmas
    \/ VerifyPsi
    \/ VerifyChecks

SpecVerify == InitVerify /\ [][NextVerify]_vars

\* ---------------------------------------------------------------------
\* The operations of ProofTranscript called one after another on a
\* transcript of either mode. reflect holds the last call: the transcript
\* before it, its arguments, and the transcript after it.
\* ---------------------------------------------------------------------

MaxTranscriptOps == 3

MaxProofBlocks == 2

TranscriptLabels == {"r", "z"}

TranscriptCall(op, label, arg, before, after, n) ==
    [op |-> op, label |-> label, arg |-> arg, before |-> before, after |-> after, n |-> n]

InitTranscript ==
    /\ proto = "schnorr"
    /\ prover = IdleProver
    /\ verifier = IdleVerifier
    /\ baseline = None
    /\ oracle = [q \in {} |-> 0]
    /\ \E t \in {new_prover(LABEL(proto))}
                \cup {new_verifier(LABEL(proto), proof) : proof \in SeqsUpTo(Blocks, MaxProofBlocks)} :
          reflect = TranscriptCall("new", "", 0, t, t, 0)

\* the next call is made on the transcript the last call left
CanCall == reflect.n < MaxTranscriptOps /\ ~reflect.after.panicked

Called(op, label, arg, after) ==
    /\ reflect' = TranscriptCall(op, label, arg, reflect.after, after, reflect.n + 1)
    /\ UNCHANGED << proto, prover, verifier, baseline, oracle >>

CommonAbsorbScalar ==
    /\ CanCall
    /\ \E label \in TranscriptLabels, scalar \in Scalars :
          Called("common_absorb_scalar", label, scalar,
                 common_absorb_scalar(reflect.after, label, scalar))

CommonAbsorbPoint ==
    /\ CanCall
    /\ \E label \in TranscriptLabels, point \in Points :
          Called("common_absorb_point", label, point,
                 common_absorb_point(reflect.after, label, point))

ProverAbsorbScalar ==
    /\ CanCall
    /\ \E label \in TranscriptLabels, scalar \in Scalars :
          Called("prover_absorb_scalar", label, scalar,
                 prover_absorb_scalar(reflect.after, label, scalar))

ProverAbsorbPoint ==
    /\ CanCall
    /\ \E label \in TranscriptLabels, point \in Points :
          Called("prover_absorb_point", label, point,
                 prover_absorb_point(reflect.after, label, point))

VerifierReceivePoints ==
    /\ CanCall
    /\ \E label \in TranscriptLabels, count \in 0 .. MaxProofBlocks :
          Called("verifier_receive_points", label, count,
                 verifier_receive_points(reflect.after, label, count).t)

VerifierReceivesAllScalars ==
    /\ CanCall
    /\ \E label \in TranscriptLabels :
          Called("verifier_receives_all_scalars", label, 0,
                 verifier_receives_all_scalars(reflect.after, label).t)

Challenge ==
    /\ CanCall
    /\ \E label \in TranscriptLabels :
          Called("challenge", label, 0, challenge(reflect.after, label))

NextTranscript ==
    \/ CommonAbsorbScalar
    \/ CommonAbsorbPoint
    \/ ProverAbsorbScalar
    \/ ProverAbsorbPoint
    \/ VerifierReceivePoints
    \/ VerifierReceivesAllScalars
    \/ Challenge

SpecTranscript == InitTranscript /\ [][NextTranscript]_vars

OrderProtocols == {"zero", "okamoto", "tagged", "nested"}

InitOrder ==
    /\ proto \in OrderProtocols
    /\ prover = IdleProver
    /\ verifier = IdleVerifier
    /\ baseline = None
    /\ oracle = [q \in {} |-> 0]
    /\ reflect = IdleReflect

NextOrder ==
    \/ ProveStart
    \/ ProveAbsorbInstance
    \/ ProveRound1
    \/ ProveRound2
    \/ ProveRound3
    \/ VerifyHonest
    \/ VerifyForged
    \/ VerifyEvalF
    \/ VerifyAbsorbInstance
    \/ VerifyReceiveA
    \/ VerifyChallenge
    \/ VerifyReceiveSigmas
    \/ VerifyPsi
    \/ VerifyChecks

SpecOrder == InitOrder /\ [][NextOrder]_vars

\* ---------------------------------------------------------------------
\* The functions of SymWitness and SymInstance, called on their own.
\* ---------------------------------------------------------------------

\* how many scalars / points more than the arity an input may have
MaxExtraScalars == 1

MaxExtraPoints == 1

\* the witness types: the bare scalar, a unit record, flat records and
\* records with a nested record in the first, the last and the only field
WitnessTypes ==
    LET One == T_Struct(<< Field("x", T_SymScalar) >>)
        Two == T_Struct(<< Field("x", T_SymScalar), Field("y", T_SymScalar) >>)
    IN  { T_SymScalar, T_Struct(<< >>), One, Two,
          T_Struct(<< Field("a", T_SymScalar), Field("inner", Two) >>),
          T_Struct(<< Field("inner", One), Field("b", T_SymScalar) >>),
          T_Struct(<< Field("inner", Two) >>) }

\* the instance types: the bare scalar and point, a unit record, flat
\* records and records with a nested record
InstanceTypes ==
    LET Mixed == T_Struct(<< Field("p", T_SymPoint), Field("s", T_SymScalar) >>)
        Pair == T_Struct(<< Field("g", T_SymPoint), Field("h", T_SymPoint) >>)
    IN  { T_SymScalar, T_SymPoint, T_Struct(<< >>), Mixed, Pair,
          T_Struct(<< Field("inner", Mixed), Field("q", T_SymPoint) >>),
          T_Struct(<< Field("s", T_SymScalar), Field("inner", Pair) >>),
          T_Struct(<< Field("p", T_SymPoint), Field("inner", Mixed) >>) }

\* leaves of every shape: constants, bound and unbound variables, and
\* compound expressions with and without an unbound variable
ReflectScalarLeaves ==
    { SymScalar_Const(s) : s \in Scalars } \cup { SymScalar_Var(Some(1)), SymScalar_Var(None) }
        \cup { SymScalar_Add(SymScalar_Const(1), SymScalar_Var(Some(1))),
               SymScalar_Neg(SymScalar_Var(None)) }

ReflectPointLeaves ==
    { SymPoint_Const(p) : p \in Points } \cup { SymPoint_Var(Some(1)), SymPoint_Var(None), H }

\* the values of a type, field by field
RECURSIVE ReflectValues(_)
RECURSIVE ReflectValuesFold(_, _)
ReflectValues(ty) ==
    CASE ty.k = "SymScalar" -> ReflectScalarLeaves
      [] ty.k = "SymPoint" -> ReflectPointLeaves
      [] OTHER -> ReflectValuesFold(ty, Len(ty.fields))

ReflectValuesFold(ty, n) ==
    IF n = 0 THEN { << >> }
    ELSE { Append(x, v) : x \in ReflectValuesFold(ty, n - 1), v \in ReflectValues(ty.fields[n].ty) }

\* a call: the function, the type it is called on and its arguments
Call(op, ty, scalars, points, x) ==
    [op |-> op, ty |-> ty, scalars |-> scalars, points |-> points,
     x |-> x, out |-> None, back |-> None]

InitReflect ==
    /\ proto = "schnorr"
    /\ prover = IdleProver
    /\ verifier = IdleVerifier
    /\ baseline = None
    /\ oracle = [q \in {} |-> 0]
    /\ \/ \E ty \in WitnessTypes :
            \E scalars \in SeqsUpTo(Scalars, SymWitness_num_scalars(ty) + MaxExtraScalars) :
                reflect = Call("SymWitness::from_values", ty, scalars, << >>, None)
       \/ \E ty \in WitnessTypes : \E x \in ReflectValues(ty) :
            reflect = Call("SymWitness::values", ty, << >>, << >>, Some(x))
       \/ \E ty \in InstanceTypes :
            \E scalars \in SeqsUpTo(Scalars, SymInstance_num_scalars(ty) + MaxExtraScalars) :
                \E points \in SeqsUpTo(Points, SymInstance_num_points(ty) + MaxExtraPoints) :
                    reflect = Call("SymInstance::from_values", ty, scalars, points, None)
       \/ \E ty \in InstanceTypes : \E x \in ReflectValues(ty) :
            reflect = Call("SymInstance::scalars", ty, << >>, << >>, Some(x))
       \/ \E ty \in InstanceTypes :
            reflect = Call("SymInstance::get_field_names", ty, << >>, << >>, None)
       \/ \E ty \in WitnessTypes : \E index \in 0 .. SymWitness_num_scalars(ty) :
            reflect = Call("SymWitness::get_var_name", ty, << >>, << >>, Some(index))

\* T::from_values(scalars)
WitnessFromValues ==
    /\ reflect.op = "SymWitness::from_values"
    /\ reflect.out = None
    /\ reflect' = [reflect EXCEPT !.out = Some(SymWitness_from_values(reflect.ty, reflect.scalars))]
    /\ UNCHANGED << proto, prover, verifier, baseline, oracle >>

\* .values() of the witness from_values has built
WitnessValuesBack ==
    /\ reflect.op = "SymWitness::from_values"
    /\ IsSome(reflect.out) /\ Unwrap(reflect.out).ok
    /\ reflect.back = None
    /\ reflect' = [reflect EXCEPT
                      !.back = Some(SymWitness_values(reflect.ty, Unwrap(reflect.out).val))]
    /\ UNCHANGED << proto, prover, verifier, baseline, oracle >>

\* x.values()
WitnessValuesOf ==
    /\ reflect.op = "SymWitness::values"
    /\ reflect.out = None
    /\ reflect' = [reflect EXCEPT
                      !.out = Some(SymWitness_values(reflect.ty, Unwrap(reflect.x)))]
    /\ UNCHANGED << proto, prover, verifier, baseline, oracle >>

\* T::from_values(x.values()?)
WitnessFromValuesBack ==
    /\ reflect.op = "SymWitness::values"
    /\ IsSome(reflect.out) /\ Unwrap(reflect.out).ok
    /\ reflect.back = None
    /\ reflect' = [reflect EXCEPT
                      !.back = Some(SymWitness_from_values(reflect.ty, Unwrap(reflect.out).val))]
    /\ UNCHANGED << proto, prover, verifier, baseline, oracle >>

\* U::from_values(scalars, points)
InstanceFromValues ==
    /\ reflect.op = "SymInstance::from_values"
    /\ reflect.out = None
    /\ reflect' = [reflect EXCEPT
                      !.out = Some(SymInstance_from_values(reflect.ty, reflect.scalars,
                                                           reflect.points))]
    /\ UNCHANGED << proto, prover, verifier, baseline, oracle >>

\* the evaluation of a list of scalar leaves
RECURSIVE EvaluateScalars(_, _, _)
EvaluateScalars(scalars, i, acc) ==
    IF i > Len(scalars) THEN Ok(acc)
    ELSE LET s == SymScalar_evaluate(scalars[i])
         IN  IF ~s.ok THEN s ELSE EvaluateScalars(scalars, i + 1, Append(acc, s.val))

\* x.scalars() and x.points(), kept as they are and with each leaf evaluated
InstanceFlatten ==
    /\ reflect.op = "SymInstance::scalars"
    /\ reflect.out = None
    /\ LET x == Unwrap(reflect.x)
           scalars == EvaluateScalars(SymInstance_scalars(reflect.ty, x), 1, << >>)
           points == EvaluateAll(SymInstance_points(reflect.ty, x), 1, << >>)
       IN  reflect' = [reflect EXCEPT
                          !.scalars = SymInstance_scalars(reflect.ty, x),
                          !.points = SymInstance_points(reflect.ty, x),
                          !.out = Some(IF ~scalars.ok THEN scalars
                                       ELSE IF ~points.ok THEN points
                                       ELSE Ok(<< scalars.val, points.val >>))]
    /\ UNCHANGED << proto, prover, verifier, baseline, oracle >>

\* U::from_values of the evaluated scalars and points of x
InstanceRebuild ==
    /\ reflect.op = "SymInstance::scalars"
    /\ IsSome(reflect.out) /\ Unwrap(reflect.out).ok
    /\ reflect.back = None
    /\ LET flat == Unwrap(reflect.out).val
       IN  reflect' = [reflect EXCEPT
                          !.back = Some(SymInstance_from_values(reflect.ty, flat[1], flat[2]))]
    /\ UNCHANGED << proto, prover, verifier, baseline, oracle >>

\* U::get_field_names()
InstanceFieldNames ==
    /\ reflect.op = "SymInstance::get_field_names"
    /\ reflect.out = None
    /\ reflect' = [reflect EXCEPT !.out = Some(SymInstance_get_field_names(reflect.ty))]
    /\ UNCHANGED << proto, prover, verifier, baseline, oracle >>

\* T::get_var_name(index)
WitnessVarName ==
    /\ reflect.op = "SymWitness::get_var_name"
    /\ reflect.out = None
    /\ reflect' = [reflect EXCEPT
                      !.out = Some(SymWitness_get_var_name(reflect.ty, Unwrap(reflect.x)))]
    /\ UNCHANGED << proto, prover, verifier, baseline, oracle >>

NextReflect ==
    \/ WitnessFromValues
    \/ WitnessValuesBack
    \/ WitnessValuesOf
    \/ WitnessFromValuesBack
    \/ InstanceFromValues
    \/ InstanceFlatten
    \/ InstanceRebuild
    \/ InstanceFieldNames
    \/ WitnessVarName

SpecReflect == InitReflect /\ [][NextReflect]_vars

\* ---------------------------------------------------------------------
\* equations.rs: the operators of SymScalar and SymPoint, and evaluate,
\* called on their own.
\* ---------------------------------------------------------------------

\* the operands: every leaf, and every node with leaves as children
ScalarOperandLeaves ==
    { SymScalar_Const(s) : s \in Scalars } \cup { SymScalar_Var(Some(1)), SymScalar_Var(None) }

ScalarOperands ==
    ScalarOperandLeaves
        \cup { SymScalar_Add(a, b) : a, b \in ScalarOperandLeaves }
        \cup { SymScalar_Sub(a, b) : a, b \in ScalarOperandLeaves }
        \cup { SymScalar_Mul(a, b) : a, b \in ScalarOperandLeaves }
        \cup { SymScalar_Neg(a) : a \in ScalarOperandLeaves }

PointOperandLeaves ==
    { SymPoint_Const(p) : p \in Points } \cup { SymPoint_Var(Some(1)), SymPoint_Var(None) }

PointOperands ==
    PointOperandLeaves
        \cup { SymPoint_Add(a, b) : a, b \in PointOperandLeaves }
        \cup { SymPoint_Sub(a, b) : a, b \in PointOperandLeaves }
        \cup { SymPoint_Scale(a, b) : a \in ScalarOperandLeaves, b \in PointOperandLeaves }
        \cup { SymPoint_Neg(a) : a \in PointOperandLeaves }

\* a use of an operator: the operands are Some(tree), or None where the
\* operator has none; an operand is either owned or borrowed (&)
OperatorCall(op, ty, lhs, rhs, lhs_borrowed, rhs_borrowed) ==
    [op |-> op, ty |-> ty, lhs |-> lhs, rhs |-> rhs,
     lhs_borrowed |-> lhs_borrowed, rhs_borrowed |-> rhs_borrowed,
     lhs_after |-> lhs, rhs_after |-> rhs, out |-> None, value |-> None]

InitExpr ==
    /\ proto = "schnorr"
    /\ prover = IdleProver
    /\ verifier = IdleVerifier
    /\ baseline = None
    /\ oracle = [q \in {} |-> 0]
    /\ \/ \E op \in {"Add", "Sub", "Mul"} : \E a, b \in ScalarOperands :
            \E lb, rb \in BOOLEAN :
                reflect = OperatorCall(op, T_SymScalar, Some(a), Some(b), lb, rb)
       \/ \E a \in ScalarOperands : \E lb \in BOOLEAN :
            reflect = OperatorCall("Neg", T_SymScalar, Some(a), None, lb, FALSE)
       \/ \E op \in {"Add", "Sub"} : \E a, b \in PointOperands :
            \E lb, rb \in BOOLEAN :
                reflect = OperatorCall(op, T_SymPoint, Some(a), Some(b), lb, rb)
       \/ \E a \in PointOperands : \E lb \in BOOLEAN :
            reflect = OperatorCall("Neg", T_SymPoint, Some(a), None, lb, FALSE)
       \/ \E a \in ScalarOperands : \E b \in PointOperands : \E lb, rb \in BOOLEAN :
            reflect = OperatorCall("Mul", T_SymPoint, Some(a), Some(b), lb, rb)
       \/ \E a \in Scalars : \E b \in PointOperands : \E lb, rb \in BOOLEAN :
            reflect = OperatorCall("Scalar::mul", T_SymPoint, Some(a), Some(b), lb, rb)
       \/ \E ty \in WitnessTypes : \E x \in ReflectValues(ty) :
            reflect = Call("SymWitness::values", ty, << >>, << >>, Some(x))

\* an operator that folds the sum of two constants into a constant
Operator_output_folding(op, ty, lhs, rhs) ==
    IF ty.k = "SymScalar"
    THEN CASE op = "Add" ->
                IF lhs.t = "Const" /\ rhs.t = "Const"
                THEN SymScalar_Const(ScalarAdd(lhs.v, rhs.v))
                ELSE SymScalar_Add(lhs, rhs)
           [] op = "Sub" -> SymScalar_Sub(lhs, rhs)
           [] op = "Mul" -> SymScalar_Mul(lhs, rhs)
           [] op = "Neg" -> SymScalar_Neg(lhs)
    ELSE CASE op = "Add" -> SymPoint_Add(lhs, rhs)
           [] op = "Sub" -> SymPoint_Sub(lhs, rhs)
           [] op = "Mul" -> SymPoint_Scale(lhs, rhs)
           [] op = "Scalar::mul" -> SymPoint_Scale(SymScalar_Const(lhs), rhs)
           [] op = "Neg" -> SymPoint_Neg(lhs)

\* impl Add / Sub / Mul / Neg for SymScalar and SymPoint, and
\* impl Mul<SymPoint> for SymScalar and for Scalar: the node built
Operator_output(op, ty, lhs, rhs) ==
    IF ty.k = "SymScalar"
    THEN CASE op = "Add" -> SymScalar_Add(lhs, rhs)
           [] op = "Sub" -> SymScalar_Sub(lhs, rhs)
           [] op = "Mul" -> SymScalar_Mul(lhs, rhs)
           [] op = "Neg" -> SymScalar_Neg(lhs)
    ELSE CASE op = "Add" -> SymPoint_Add(lhs, rhs)
           [] op = "Sub" -> SymPoint_Sub(lhs, rhs)
           [] op = "Mul" -> SymPoint_Scale(lhs, rhs)
           [] op = "Scalar::mul" -> SymPoint_Scale(SymScalar_Const(lhs), rhs)
           [] op = "Neg" -> SymPoint_Neg(lhs)

\* lhs op rhs: an owned operand is moved into the node, a borrowed one is
\* cloned and stays with the caller
ApplyOperator ==
    /\ reflect.op \in {"Add", "Sub", "Mul", "Neg", "Scalar::mul"}
    /\ reflect.out = None
    /\ LET lhs == Unwrap(reflect.lhs)
           rhs == IF IsSome(reflect.rhs) THEN Unwrap(reflect.rhs) ELSE None
       IN  reflect' = [reflect EXCEPT
                          !.out = Some(Operator_output(reflect.op, reflect.ty, lhs, rhs)),
                          !.lhs_after = IF reflect.lhs_borrowed THEN reflect.lhs ELSE None,
                          !.rhs_after = IF reflect.rhs_borrowed THEN reflect.rhs ELSE None]
    /\ UNCHANGED << proto, prover, verifier, baseline, oracle >>

\* (lhs op rhs).evaluate()
EvaluateOutput ==
    /\ reflect.op \in {"Add", "Sub", "Mul", "Neg", "Scalar::mul"}
    /\ IsSome(reflect.out)
    /\ reflect.value = None
    /\ reflect' = [reflect EXCEPT
                      !.value = Some(IF reflect.ty.k = "SymScalar"
                                     THEN SymScalar_evaluate(Unwrap(reflect.out))
                                     ELSE SymPoint_evaluate(Unwrap(reflect.out)))]
    /\ UNCHANGED << proto, prover, verifier, baseline, oracle >>

NextExpr ==
    \/ ApplyOperator
    \/ EvaluateOutput
    \/ WitnessValuesOf

SpecExpr == InitExpr /\ [][NextExpr]_vars

\* ---------------------------------------------------------------------
\* compiler.rs: SigmaProof::spec() and its renderers.  A text is the
\* sequence of its pieces.  spec() never evaluates a tree, so here scalars
\* are natural numbers and the point k is k * G, without reduction.
\* ---------------------------------------------------------------------

\* the largest number of scalars of a rendered protocol's witness
MaxWitnessScalars == 6

\* name.replace('_', "\\_")
Escape(name) == IF name = "secret_key" THEN "secret\\_key" ELSE name

latex_var(name) == << "\\texttt{", Escape(name), "}" >>

RECURSIVE symscalar_to_latex(_, _)
symscalar_to_latex(scalar, var_names) ==
    CASE scalar.t = "Const" ->
            IF scalar.v \in 1 .. 5 THEN << ToString(scalar.v) >> ELSE << "c" >>
      [] scalar.t = "Var" ->
            IF ~IsSome(scalar.o) THEN << "?" >>
            ELSE LET v == Unwrap(scalar.o)
                 IN  IF v \in 1 .. 5 /\ Len(var_names) > v - 1 THEN latex_var(var_names[v])
                     ELSE << "v" >>
      [] scalar.t = "Add" ->
            << "(" >> \o symscalar_to_latex(scalar.a, var_names) \o << " + " >>
                \o symscalar_to_latex(scalar.b, var_names) \o << ")" >>
      [] scalar.t = "Sub" ->
            << "(" >> \o symscalar_to_latex(scalar.a, var_names) \o << " - " >>
                \o symscalar_to_latex(scalar.b, var_names) \o << ")" >>
      [] scalar.t = "Neg" ->
            << "(-" >> \o symscalar_to_latex(scalar.a, var_names) \o << ")" >>
      [] scalar.t = "Mul" ->
            << "(" >> \o symscalar_to_latex(scalar.a, var_names) \o << " \\cdot " >>
                \o symscalar_to_latex(scalar.b, var_names) \o << ")" >>

RECURSIVE sympoint_to_latex_with_context(_, _)
sympoint_to_latex_with_context(point, var_names) ==
    CASE point.t = "Const" ->
            IF point.v = RISTRETTO_BASEPOINT_POINT THEN << "G" >> ELSE << "P" >>
      [] point.t = "Var" -> IF IsSome(point.o) THEN << "P" >> ELSE << "?" >>
      [] point.t = "Add" ->
            << "(" >> \o sympoint_to_latex_with_context(point.a, var_names) \o << " + " >>
                \o sympoint_to_latex_with_context(point.b, var_names) \o << ")" >>
      [] point.t = "Sub" ->
            << "(" >> \o sympoint_to_latex_with_context(point.a, var_names) \o << " - " >>
                \o sympoint_to_latex_with_context(point.b, var_names) \o << ")" >>
      [] point.t = "Neg" ->
            << "(-" >> \o sympoint_to_latex_with_context(point.a, var_names) \o << ")" >>
      [] point.t = "Scale" ->
            LET point_str ==
                    CASE point.p.t = "Const" /\ point.p.v = 2 -> latex_var("pubkey")
                      [] point.p.t = "Const" /\ point.p.v = 3 -> latex_var("commitment")
                      [] point.p.t = "Const" /\ point.p.v = 4 -> latex_var("handle")
                      [] OTHER -> sympoint_to_latex_with_context(point.p, var_names)
            IN  symscalar_to_latex(point.s, var_names) \o << " \\cdot " >> \o point_str

\* a protocol's psi or f as written: a tree whose leaves name the witness
\* scalar (W) or instance point (X) they take, or are the constant G
WitnessLeaf(i) == [t |-> "W", i |-> i]

InstancePointLeaf(j) == [t |-> "X", i |-> j]

\* the tree psi or f returns for a witness and an instance
RECURSIVE ApplyTemplate(_, _, _)
ApplyTemplate(tree, witness_values, instance_points) ==
    CASE tree.t = "W" -> witness_values[tree.i + 1]
      [] tree.t = "X" -> instance_points[tree.i + 1]
      [] tree.t = "Const" -> tree
      [] tree.t = "Scale" ->
            SymPoint_Scale(ApplyTemplate(tree.s, witness_values, instance_points),
                           ApplyTemplate(tree.p, witness_values, instance_points))
      [] tree.t = "Neg" ->
            [t |-> "Neg", a |-> ApplyTemplate(tree.a, witness_values, instance_points)]
      [] OTHER ->
            [t |-> tree.t, a |-> ApplyTemplate(tree.a, witness_values, instance_points),
             b |-> ApplyTemplate(tree.b, witness_values, instance_points)]

\* the scalar leaves of a flat witness record, as psi destructures it
WitnessLeaves(ty, w) == IF ty.k = "SymScalar" THEN << w >> ELSE w

\* SigmaProof::spec(): the rendered psi and f and the two name lists, or
\* the fallback text
spec(witness_ty, instance_ty, psi_template, f_template) ==
    LET psi_in_len == SymWitness_num_scalars(witness_ty)
        f_scalars_in == SymInstance_num_scalars(instance_ty)
        f_points_in == SymInstance_num_points(instance_ty)
        dummy_scalars == [i \in 1 .. psi_in_len |-> i]
        dummy_witness == SymWitness_from_values(witness_ty, dummy_scalars)
        dummy_f_scalars_in == [i \in 1 .. f_scalars_in |-> i]
        dummy_instance_points == [i \in 1 .. f_points_in |-> i + 1]
        dummy_instance == SymInstance_from_values(instance_ty, dummy_f_scalars_in,
                                                  dummy_instance_points)
    IN  IF ~dummy_witness.ok \/ ~dummy_instance.ok
        THEN [text |-> "Error: Could not generate symbolic analysis for this protocol."]
        ELSE LET var_names == [i \in 1 .. psi_in_len |->
                                  SymWitness_get_var_name(witness_ty, i - 1)]
                 instance_field_names == SymInstance_get_field_names(instance_ty)
                 witness_values == WitnessLeaves(witness_ty, dummy_witness.val)
                 instance_points == SymInstance_points(instance_ty, dummy_instance.val)
                 f_result == [k \in 1 .. Len(f_template) |->
                                 ApplyTemplate(f_template[k], witness_values, instance_points)]
                 psi_result == [k \in 1 .. Len(psi_template) |->
                                   ApplyTemplate(psi_template[k], witness_values,
                                                 instance_points)]
                 f_equation(point) ==
                     IF point.t = "Const" /\ point.v \in 2 .. 4
                     THEN IF Len(instance_field_names) > f_scalars_in + (point.v - 2)
                          THEN latex_var(instance_field_names[f_scalars_in + (point.v - 2) + 1])
                          ELSE CASE point.v = 2 -> << "P_1" >>
                                 [] point.v = 3 -> << "P_2" >>
                                 [] point.v = 4 -> << "P_3" >>
                     ELSE sympoint_to_latex_with_context(point, var_names)
             IN  [text |-> "spec",
                  psi_equations |-> [k \in 1 .. Len(psi_result) |->
                                        sympoint_to_latex_with_context(psi_result[k], var_names)],
                  f_equations |-> [k \in 1 .. Len(f_result) |-> f_equation(f_result[k])],
                  witness_field_names |-> [i \in 1 .. psi_in_len |-> latex_var(var_names[i])],
                  instance_field_names |-> [i \in 1 .. Len(instance_field_names) |->
                                               latex_var(instance_field_names[i])]]

\* the flat witness records of 1 .. MaxWitnessScalars scalars
RenderWitnessTypes ==
    LET names == << "secret_key", "b", "c", "d", "e", "f", "g", "h" >>
    IN  { T_Struct([i \in 1 .. n |-> Field(names[i], T_SymScalar)]) : n \in 1 .. MaxWitnessScalars }

\* instance records of one to four points, and one with a scalar first
RenderInstanceTypes ==
    { T_Struct(<< Field("pubkey", T_SymPoint) >>),
      T_Struct(<< Field("point1", T_SymPoint), Field("point2", T_SymPoint) >>),
      T_Struct(<< Field("pubkey", T_SymPoint), Field("commitment", T_SymPoint),
                  Field("handle", T_SymPoint) >>),
      T_Struct(<< Field("n", T_SymScalar), Field("base", T_SymPoint),
                  Field("pk", T_SymPoint), Field("c", T_SymPoint), Field("d", T_SymPoint) >>) }

\* the shapes of psi: w * G, w * X, (w * G + w' * X), (X - w * G)
PsiTemplates(witness_ty, instance_ty) ==
    LET W == { WitnessLeaf(i) : i \in 0 .. SymWitness_num_scalars(witness_ty) - 1 }
        X == { InstancePointLeaf(j) : j \in 0 .. SymInstance_num_points(instance_ty) - 1 }
        g == SymPoint_Const(RISTRETTO_BASEPOINT_POINT)
    IN  { << SymPoint_Scale(w, g) >> : w \in W }
            \cup { << SymPoint_Scale(w, x) >> : w \in W, x \in X }
            \cup { << SymPoint_Add(SymPoint_Scale(w, g), SymPoint_Scale(w, x)) >> : w \in W, x \in X }
            \cup { << SymPoint_Sub(x, SymPoint_Scale(w, g)) >> : w \in W, x \in X }

\* the shapes of f: one instance point
FTemplates(instance_ty) ==
    { << InstancePointLeaf(j) >> : j \in 0 .. SymInstance_num_points(instance_ty) - 1 }

InitRender ==
    /\ proto = "schnorr"
    /\ prover = IdleProver
    /\ verifier = IdleVerifier
    /\ baseline = None
    /\ oracle = [q \in {} |-> 0]
    /\ \E witness_ty \in RenderWitnessTypes : \E instance_ty \in RenderInstanceTypes :
         \E psi_template \in PsiTemplates(witness_ty, instance_ty) :
           \E f_template \in FTemplates(instance_ty) :
             reflect = [op |-> "SigmaProof::spec", witness_ty |-> witness_ty,
                        instance_ty |-> instance_ty, psi |-> psi_template,
                        f |-> f_template, out |-> None]

\* P::spec()
RenderSpec ==
    /\ reflect.op = "SigmaProof::spec"
    /\ reflect.out = None
    /\ reflect' = [reflect EXCEPT
                      !.out = Some(spec(reflect.witness_ty, reflect.instance_ty,
                                        reflect.psi, reflect.f))]
    /\ UNCHANGED << proto, prover, verifier, baseline, oracle >>

NextRender == RenderSpec

SpecRender == InitRender /\ [][NextRender]_vars

\* ---------------------------------------------------------------------
\* Properties
\* ---------------------------------------------------------------------

Shipped == {"schnorr", "okamoto", "chaum", "zero"}

TheWitness == Unwrap(prover.witness)

TheInstance == Unwrap(prover.instance)

Result(v) == Unwrap(v.result)

Accepted(v) == v.pc = "done" /\ Result(v).ok

RejectedWith(v, err) == v.pc = "done" /\ ~Result(v).ok /\ Result(v).err = err

\* the call of verify in progress or finished is the one on the prover's
\* own output
HonestCall == ProverReturnedProof /\ baseline = None /\ verifier.pc # "idle"

\* a second call of verify, on an altered input, has finished
TamperedCallDone == baseline # None /\ verifier.pc = "done"

\* psi(w, X) = f(X) componentwise
Relation(P, w, x) ==
    LET l == EvaluateAll(psi(P, w, x), 1, << >>)
        r == EvaluateAll(f(P, x), 1, << >>)
    IN  l.ok /\ r.ok /\ l.val = r.val

\* psi(w, X) and f(X) have the same length and differ in a component
BadWitness(P, w, x) ==
    LET l == EvaluateAll(psi(P, w, x), 1, << >>)
        r == EvaluateAll(f(P, x), 1, << >>)
    IN  l.ok /\ r.ok /\ Len(l.val) = Len(r.val) /\ l.val # r.val

\* C1 (completeness): for the four shipped protocols, when psi(w, X) = f(X)
\* componentwise, verify on the instance given to prove and on the proof
\* prove returned ends with Ok, for every blinding value and the challenge
\* the transcript derives.
C1_Completeness ==
    (/\ proto \in Shipped
     /\ HonestCall
     /\ verifier.pc = "done"
     /\ Relation(proto, TheWitness, TheInstance))
        => Result(verifier) = Ok(<< >>)

C1_Witness ==
    /\ proto = "zero"
    /\ HonestCall
    /\ Relation(proto, TheWitness, TheInstance)
    /\ Unwrap(prover.e) # 0
    /\ Accepted(verifier)

\* C2 (bad witness): when prove is run with a fully instantiated witness and
\* instance for which psi(w, X) differs from f(X) in a component, it returns
\* a proof all the same, and verify on that proof draws a challenge and,
\* whenever the challenge is not zero, ends with EquationCheckFailed.
C2_BadWitness ==
    /\ (/\ prover.pc = "done"
        /\ BadWitness(proto, TheWitness, TheInstance))
          => Result(prover).ok
    /\ (/\ HonestCall
        /\ verifier.pc = "done"
        /\ BadWitness(proto, TheWitness, TheInstance))
          => /\ IsSome(verifier.e)
             /\ Unwrap(verifier.e) # 0 => RejectedWith(verifier, EquationCheckFailed)

\* a wrong second component only (Chaum-Pedersen), non-zero challenge
C2_Witness ==
    /\ proto = "chaum"
    /\ HonestCall
    /\ BadWitness(proto, TheWitness, TheInstance)
    /\ SymPoint_evaluate(psi(proto, TheWitness, TheInstance)[1])
         = SymPoint_evaluate(f(proto, TheInstance)[1])
    /\ IsSome(verifier.e) /\ Unwrap(verifier.e) # 0
    /\ RejectedWith(verifier, EquationCheckFailed)

DifferingBlocks(p, q) == { i \in 1 .. Len(p.blocks) : p.blocks[i] # q.blocks[i] }

ExpectedQuery ==
    LET ty == InstanceType(proto)
        pts == SymInstance_points(ty, TheInstance)
        scs == SymInstance_scalars(ty, TheInstance)
        commitments == psi(proto, Unwrap(prover.alphas), TheInstance)
    IN  [label |-> LABEL(proto),
         messages |->
              [i \in 1 .. Len(pts) |-> << "", Point_compress(SymPoint_evaluate(pts[i]).val) >>]
           \o [i \in 1 .. Len(scs) |-> << "", Scalar_as_bytes(SymScalar_evaluate(scs[i]).val) >>]
           \o [i \in 1 .. Len(commitments) |->
                    << "r", Point_compress(SymPoint_evaluate(commitments[i]).val) >>]
           \o << << "e", 64 >> >>]

\* C4 as stated: when verify runs on the prover's instance and proof, the
\* sponge state from which it draws the challenge is the one the prover drew
\* its challenge from -- the protocol label, the instance points then the
\* instance scalars under the empty label, the commitments under "r" -- and
\* both obtain the same challenge.
C4_SameTranscript ==
    (HonestCall /\ IsSome(verifier.query)) =>
        /\ verifier.query = prover.query
        /\ Unwrap(prover.query) = ExpectedQuery
        /\ verifier.e = prover.e

\* C4 as amended: the prover draws its challenge after the instance points,
\* the instance scalars and the |psi(alpha, X)| commitments; the verifier
\* draws its challenge after the instance points, the instance scalars and
\* the first |f(X)| blocks of the proof.  When psi returns as many points as
\* f, as in the four shipped protocols, the two sponge states and the two
\* challenges are the same; when f returns more points than psi they differ.
C4_SameTranscriptEqualArity ==
    (HonestCall /\ IsSome(verifier.query)) =>
        LET n_psi == Len(psi(proto, Unwrap(prover.alphas), TheInstance))
            n_f == Len(f(proto, TheInstance))
            proof == Result(prover).val
            asked == Unwrap(verifier.query).messages
            n_x == Len(asked) - n_f - 1
        IN  /\ Unwrap(prover.query) = ExpectedQuery
            /\ SubSeq(asked, 1, n_x) = SubSeq(ExpectedQuery.messages, 1, n_x)
            /\ \A k \in 1 .. n_f : asked[n_x + k] = << "r", proof[k] >>
            /\ n_psi = n_f => /\ verifier.query = prover.query
                              /\ verifier.e = prover.e
            /\ n_psi < n_f => verifier.query # prover.query
            /\ proto \in Shipped => n_psi = n_f

C4_Witness ==
    /\ proto = "zero"
    /\ HonestCall
    /\ verifier.pc = "receive_sigmas"
    /\ Len(Unwrap(verifier.query).messages) = 6
    /\ verifier.e = prover.e

\* C5: a proof returned by prove is 32 * |psi(alpha, X)| + 32 * N_w bytes
\* long: the commitments in the order of psi's output, then the responses in
\* the order of the witness's values, each as one 32-byte block.
C5_ProofLayout ==
    ProverReturnedProof =>
        LET proof == Result(prover).val
            commitments == psi(proto, Unwrap(prover.alphas), TheInstance)
            n == Len(commitments)
            N_w == SymWitness_num_scalars(WitnessType(proto))
            ws == SymWitness_values(WitnessType(proto), TheWitness).val
            as == SymWitness_values(WitnessType(proto), Unwrap(prover.alphas)).val
            e == Unwrap(prover.e)
        IN  /\ ProofLen(ProverProof) = 32 * n + 32 * N_w
            /\ Len(proof) = n + N_w
            /\ \A k \in 1 .. n :
                  proof[k] = Point_compress(SymPoint_evaluate(commitments[k]).val)
            /\ \A i \in 1 .. N_w :
                  proof[n + i] = Scalar_as_bytes(ScalarAdd(ScalarMul(ws[i], e), as[i]))
            /\ proto = "schnorr" => ProofLen(ProverProof) = 64
            /\ proto \in {"okamoto", "chaum"} => ProofLen(ProverProof) = 96

C5_Witness ==
    /\ proto = "okamoto"
    /\ ProverReturnedProof
    /\ Len(Result(prover).val) = 3
    /\ Result(prover).val[2] # Result(prover).val[3]

\* the input of the call of verify
TheProof == Unwrap(verifier.proof)

VerifierInstance == Unwrap(verifier.instance)

VerifierInstantiated == FullyInstantiated(InstanceType(proto), VerifierInstance)

\* the block is the compressed encoding of a point
ValidPointBlock(b) == \E pt \in Points : Point_compress(pt) = b

\* the block is the encoding of a scalar
CanonicalScalarBlock(b) == \E sc \in Scalars : Scalar_as_bytes(sc) = b

PointOfBlock(b) == CHOOSE pt \in Points : Point_compress(pt) = b

ScalarOfBlock(b) == CHOOSE sc \in Scalars : Scalar_as_bytes(sc) = b

\* the proof is n valid compressed points followed by k canonical scalars
ParsesAs(proof, n, k) ==
    /\ proof.tail = 0
    /\ Len(proof.blocks) = n + k
    /\ \A i \in 1 .. n : ValidPointBlock(proof.blocks[i])
    /\ \A i \in n + 1 .. n + k : CanonicalScalarBlock(proof.blocks[i])

NoPanic(v) == IsSome(v.transcript) => ~Unwrap(v.transcript).panicked

\* C6: for every instance, instantiated or not, and every proof whose
\* length is not a multiple of 32, verify returns
\* TranscriptFinalizationFailed without having made a transcript, evaluated
\* f, absorbed anything or read a block of the proof.
C6_LengthCheckFirst ==
    (verifier.pc # "idle" /\ ProofLen(TheProof) % 32 # 0) =>
        /\ RejectedWith(verifier, TranscriptFinalizationFailed)
        /\ verifier.transcript = None
        /\ verifier.big_x_points = None
        /\ verifier.big_a = None
        /\ verifier.query = None
        /\ verifier.sigmas = None

C6_Witness ==
    /\ verifier.pc = "done"
    /\ TheProof.tail # 0
    /\ Len(TheProof.blocks) > 0
    /\ ~VerifierInstantiated
    /\ RejectedWith(verifier, TranscriptFinalizationFailed)

\* C7: for a fully instantiated instance X and a proof whose length is a
\* multiple of 32, verify returns TranscriptError when the proof has fewer
\* than |f(X)| blocks, or one of its first |f(X)| blocks is not a valid
\* compressed point, or one of the other blocks is not a canonical scalar.
C7_TranscriptError ==
    (verifier.pc = "done" /\ VerifierInstantiated /\ ProofLen(TheProof) % 32 = 0) =>
        LET n == Len(f(proto, VerifierInstance))
            bs == TheProof.blocks
        IN  (\/ Len(bs) < n
             \/ \E i \in 1 .. Min(n, Len(bs)) : ~ValidPointBlock(bs[i])
             \/ \E i \in n + 1 .. Len(bs) : ~CanonicalScalarBlock(bs[i]))
                => RejectedWith(verifier, TranscriptError)

\* valid commitments followed by a non-canonical scalar
C7_Witness ==
    /\ proto = "chaum"
    /\ verifier.pc = "done"
    /\ VerifierInstantiated
    /\ TheProof.tail = 0
    /\ Len(TheProof.blocks) = 3
    /\ ValidPointBlock(TheProof.blocks[1])
    /\ ValidPointBlock(TheProof.blocks[2])
    /\ ~CanonicalScalarBlock(TheProof.blocks[3])
    /\ RejectedWith(verifier, TranscriptError)

\* C8: for a proof made of |f(X)| valid commitments followed by k canonical
\* scalars, k other than N_w, verify never returns Ok: it fails with
\* TooManyScalars when k > N_w and with InsufficientScalars when k < N_w,
\* whether the witness is a derived record or a bare SymScalar.
C8_ResponseCount ==
    (verifier.pc = "done" /\ VerifierInstantiated) =>
        LET n == Len(f(proto, VerifierInstance))
            k == Len(TheProof.blocks) - n
            N_w == SymWitness_num_scalars(WitnessType(proto))
        IN  (k >= 0 /\ k # N_w /\ ParsesAs(TheProof, n, k)) =>
               /\ ~Result(verifier).ok
               /\ k > N_w => Result(verifier).err.kind = "TooManyScalars"
               /\ k < N_w => Result(verifier).err = InsufficientScalars

VerifierExpectedQuery ==
    LET ty == InstanceType(proto)
        pts == SymInstance_points(ty, VerifierInstance)
        scs == SymInstance_scalars(ty, VerifierInstance)
        big_a == Unwrap(verifier.big_a)
    IN  [label |-> LABEL(proto),
         messages |->
              [i \in 1 .. Len(pts) |-> << "", Point_compress(SymPoint_evaluate(pts[i]).val) >>]
           \o [i \in 1 .. Len(scs) |-> << "", Scalar_as_bytes(SymScalar_evaluate(scs[i]).val) >>]
           \o [i \in 1 .. Len(big_a) |-> << "r", Point_compress(big_a[i]) >>]
           \o << << "e", 64 >> >>]

\* C10: for a proof that parses into |f(X)| commitments A and exactly N_w
\* responses Z, with |psi(Z, X)| = |f(X)|, verify returns Ok if and only if
\* psi(Z, X)[k] = A[k] + e * f(X)[k] for every k, and EquationCheckFailed
\* otherwise, e being the challenge drawn after absorbing X and A.
C10_EquationsDecide ==
    (/\ verifier.pc = "done"
     /\ IsSome(verifier.psi_output)
     /\ Len(Unwrap(verifier.psi_output)) = Len(Unwrap(verifier.big_x_points))) =>
        LET X == EvaluateAll(f(proto, VerifierInstance), 1, << >>).val
            A == [k \in 1 .. Len(X) |-> PointOfBlock(TheProof.blocks[k])]
            sigmas == [i \in 1 .. Len(TheProof.blocks) - Len(X) |->
                          ScalarOfBlock(TheProof.blocks[Len(X) + i])]
            Z == SymWitness_from_values(WitnessType(proto), sigmas).val
            lhs == EvaluateAll(psi(proto, Z, VerifierInstance), 1, << >>)
            e == Unwrap(verifier.e)
            equations == /\ lhs.ok
                         /\ \A k \in 1 .. Len(X) :
                               lhs.val[k] = PointAdd(A[k], PointScale(e, X[k]))
        IN  /\ Unwrap(verifier.query) = VerifierExpectedQuery
            /\ e = oracle[Unwrap(verifier.query)]
            /\ Len(sigmas) = SymWitness_num_scalars(WitnessType(proto))
            /\ Result(verifier).ok <=> equations
            /\ ~equations => RejectedWith(verifier, EquationCheckFailed)

\* a proof that was not made by prove satisfies both Chaum-Pedersen equations
C10_Witness ==
    /\ proto = "chaum"
    /\ prover.pc = "idle"
    /\ Accepted(verifier)
    /\ Unwrap(verifier.e) # 0
    /\ Unwrap(verifier.big_x_points)[1] # 0

\* the position of a statement of verify in its body
VerifyRank(pc) ==
    CASE pc = "idle" -> 0
      [] pc = "eval_f" -> 1
      [] pc = "absorb_instance" -> 2
      [] pc = "receive_A" -> 3
      [] pc = "challenge" -> 4
      [] pc = "receive_sigmas" -> 5
      [] pc = "psi" -> 6
      [] pc = "checks" -> 7
      [] pc = "done" -> 8

\* the values of SigmaProofError
SigmaProofErrorKinds ==
    { "UninstantiatedScalar", "UninstantiatedPoint", "InsufficientScalars",
      "InsufficientPoints", "TooManyScalars", "FieldDeserializationFailed",
      "EquationCheckFailed", "PsiOutputLengthMismatch",
      "TranscriptFinalizationFailed", "TranscriptError", "InvalidScalarValues" }

\* the transcript of verify is in verifier mode, over the proof it was made
\* with, its cursor within the buffer, and no assertion has failed
VerifierTranscriptSound ==
    IsSome(verifier.transcript) =>
        LET t == Unwrap(verifier.transcript)
        IN  /\ ~t.panicked
            /\ ~t.is_prover
            /\ t.proof = TheProof.blocks
            /\ t.position \in 0 .. Len(t.proof)

VerifyReturnsResult ==
    verifier.pc = "done" =>
        \/ Result(verifier) = Ok(<< >>)
        \/ /\ ~Result(verifier).ok
           /\ Result(verifier).err.kind \in SigmaProofErrorKinds

\* C11: for every instance and every byte string given as proof, verify
\* returns after at most eight steps, each of which takes it further down
\* its body, and it returns Ok or a value of SigmaProofError; its
\* transcript stays in verifier mode, no role assertion fails and no read
\* goes beyond the buffer.
C11_VerifyTotal ==
    /\ [](/\ VerifierTranscriptSound
          /\ VerifyReturnsResult
          /\ IsSome(prover.transcript) => /\ Unwrap(prover.transcript).is_prover
                                          /\ ~Unwrap(prover.transcript).panicked)
    /\ [][(verifier.pc \notin {"idle", "done"} /\ verifier' # verifier)
             => VerifyRank(verifier'.pc) > VerifyRank(verifier.pc)]_vars

\* every block of a proof that is one block too long has been read
C11_Witness ==
    /\ proto = "okamoto"
    /\ verifier.pc = "done"
    /\ IsSome(verifier.transcript)
    /\ Unwrap(verifier.transcript).position = 4
    /\ Result(verifier) = Err(TooManyScalars(2, 3))

\* the first of two calls on the same input was a call of prove / of verify
FirstProve == baseline # None /\ "witness" \in DOMAIN Unwrap(baseline)

FirstVerify == baseline # None /\ "proof" \in DOMAIN Unwrap(baseline)

SchnorrLastBlockAltered ==
    /\ proto = "schnorr"
    /\ TamperedCallDone
    /\ "proof" \in DOMAIN Unwrap(baseline)
    /\ Accepted(Unwrap(baseline))
    /\ verifier.instance = Unwrap(baseline).instance
    /\ Len(TheProof.blocks) = 2
    /\ TheProof.tail = 0
    /\ DifferingBlocks(Unwrap(Unwrap(baseline).proof), TheProof) = { 2 }

\* C13 (Schnorr tampering): after a Schnorr proof has been accepted,
\* verify on the proof with its last 32 bytes changed fails: with
\* EquationCheckFailed when they are still a canonical scalar, with
\* TranscriptError when they are not.
C13_SchnorrLastByte ==
    SchnorrLastBlockAltered =>
        IF CanonicalScalarBlock(TheProof.blocks[2])
        THEN RejectedWith(verifier, EquationCheckFailed)
        ELSE RejectedWith(verifier, TranscriptError)

C13_Witness ==
    /\ SchnorrLastBlockAltered
    /\ Relation(proto, TheWitness, TheInstance)
    /\ ~CanonicalScalarBlock(TheProof.blocks[2])
    /\ RejectedWith(verifier, TranscriptError)

\* C14 as stated (label binding): a proof made by prove under one label
\* is rejected by verify of a protocol that differs in its label only, for
\* every witness and instance.
C14_OtherLabelRejected ==
    (ProverReturnedProof /\ verifier.pc = "done") => ~Result(verifier).ok

\* C14 as amended: verify under the other label draws its challenge e'
\* from a sponge state that differs from the prover's in the label (and,
\* for the shipped protocols, in nothing else); on a proof made for a
\* witness with psi(w, X) = f(X) it returns Ok when e' equals the prover's
\* challenge or every point of f(X) is the identity, and
\* EquationCheckFailed otherwise.
C14_LabelBinding ==
    /\ (ProverReturnedProof /\ IsSome(verifier.query)) =>
          /\ verifier.query # prover.query
          /\ Unwrap(verifier.query).label = TwinLabel
          /\ Unwrap(prover.query).label = LABEL(proto)
          /\ proto \in Shipped
                => Unwrap(verifier.query).messages = Unwrap(prover.query).messages
    /\ (/\ ProverReturnedProof
        /\ verifier.pc = "done"
        /\ proto \in Shipped
        /\ Relation(proto, TheWitness, TheInstance)) =>
          LET X == EvaluateAll(f(proto, TheInstance), 1, << >>).val
              holds == \/ verifier.e = prover.e
                       \/ \A k \in 1 .. Len(X) : X[k] = 0
          IN  IF holds THEN Result(verifier) = Ok(<< >>)
              ELSE RejectedWith(verifier, EquationCheckFailed)

C14_Witness ==
    /\ proto = "chaum"
    /\ ProverReturnedProof
    /\ Relation(proto, TheWitness, TheInstance)
    /\ IsSome(verifier.e)
    /\ verifier.e # prover.e
    /\ RejectedWith(verifier, EquationCheckFailed)

\* the witness from_values has been called and has returned
WitnessFromValuesDone == reflect.op = "SymWitness::from_values" /\ IsSome(reflect.out)

\* C15: for every witness type T, T::from_values(v) is Ok exactly when
\* |v| = T::num_scalars(); it is InsufficientScalars when v is shorter and
\* TooManyScalars{expected: num_scalars(), actual: |v|} when v is longer.
C15_WitnessExactLength ==
    WitnessFromValuesDone =>
        LET n == SymWitness_num_scalars(reflect.ty)
            len == Len(reflect.scalars)
            r == Unwrap(reflect.out)
        IN  /\ r.ok <=> len = n
            /\ len < n => r = Err(InsufficientScalars)
            /\ len > n => r = Err(TooManyScalars(n, len))

\* the tree has no Var(None) leaf at any depth
RECURSIVE NoUnboundLeaf(_)
NoUnboundLeaf(tree) ==
    CASE tree.t \in {"Const", "WellKnownConst"} -> TRUE
      [] tree.t = "Var" -> IsSome(tree.o)
      [] tree.t = "Neg" -> NoUnboundLeaf(tree.a)
      [] tree.t = "Scale" -> NoUnboundLeaf(tree.s) /\ NoUnboundLeaf(tree.p)
      [] OTHER -> NoUnboundLeaf(tree.a) /\ NoUnboundLeaf(tree.b)

\* no leaf of x is an unbound variable
RECURSIVE Instantiated(_, _)
Instantiated(ty, x) ==
    IF ty.k \in {"SymScalar", "SymPoint"} THEN NoUnboundLeaf(x)
    ELSE \A i \in 1 .. Len(ty.fields) : Instantiated(ty.fields[i].ty, x[i])

\* C16: for every witness type T and every fully instantiated x of it,
\* from_values(values(x)) is Ok and has the values of x; for every scalar
\* list v of length num_scalars(), values(from_values(v)) = v.
C16_WitnessRoundTrip ==
    /\ ( /\ reflect.op = "SymWitness::values"
         /\ Instantiated(reflect.ty, Unwrap(reflect.x))
         /\ IsSome(reflect.out) )
       => /\ Unwrap(reflect.out).ok
          /\ IsSome(reflect.back) =>
                /\ Unwrap(reflect.back).ok
                /\ SymWitness_values(reflect.ty, Unwrap(reflect.back).val) = Unwrap(reflect.out)
    /\ ( /\ WitnessFromValuesDone
         /\ Len(reflect.scalars) = SymWitness_num_scalars(reflect.ty) )
       => /\ Unwrap(reflect.out).ok
          /\ IsSome(reflect.back) => Unwrap(reflect.back) = Ok(reflect.scalars)

\* the instance from_values has been called and has come to an end
InstanceFromValuesDone == reflect.op = "SymInstance::from_values" /\ IsSome(reflect.out)

\* C17: for every instance type U, U::from_values(scalars, points) never
\* panics; it is Ok exactly when |scalars| = num_scalars() and |points| =
\* num_points(); it is InsufficientScalars / InsufficientPoints when the
\* scalars / points are fewer than the arity, and TooManyScalars with
\* expected = the declared arity when no input is short and one is longer.
C17_InstanceExactLength ==
    InstanceFromValuesDone =>
        LET ns == SymInstance_num_scalars(reflect.ty)
            np == SymInstance_num_points(reflect.ty)
            ls == Len(reflect.scalars)
            lp == Len(reflect.points)
            r == Unwrap(reflect.out)
        IN  /\ r # Panic
            /\ r.ok <=> (ls = ns /\ lp = np)
            /\ (ls < ns \/ lp < np) =>
                  \/ ls < ns /\ r = Err(InsufficientScalars)
                  \/ lp < np /\ r = Err(InsufficientPoints)
            /\ (ls >= ns /\ lp >= np /\ (ls > ns \/ lp > np)) =>
                  /\ ~r.ok
                  /\ r.err.kind = "TooManyScalars"
                  /\ r.err.expected = ns

\* x.scalars() and x.points() have been evaluated and from_values has
\* been applied to them
InstanceRebuilt == reflect.op = "SymInstance::scalars" /\ IsSome(reflect.back)

\* C18: for every instance type U and every fully instantiated x of it,
\* from_values(evaluated scalars(x), evaluated points(x)) is Ok; the
\* scalars() and points() of the record it yields evaluate position by
\* position to those of x, and every leaf of that record is a Const node.
C18_InstanceRoundTrip ==
    ( /\ reflect.op = "SymInstance::scalars"
      /\ Instantiated(reflect.ty, Unwrap(reflect.x))
      /\ IsSome(reflect.out) )
    => /\ Unwrap(reflect.out).ok
       /\ IsSome(reflect.back) =>
             /\ Unwrap(reflect.back).ok
             /\ LET y == Unwrap(reflect.back).val
                    flat == Unwrap(reflect.out).val
                IN  /\ EvaluateScalars(SymInstance_scalars(reflect.ty, y), 1, << >>) = Ok(flat[1])
                    /\ EvaluateAll(SymInstance_points(reflect.ty, y), 1, << >>) = Ok(flat[2])
                    /\ \A i \in 1 .. Len(Leaves(reflect.ty, y)) :
                          Leaves(reflect.ty, y)[i].t = "Const"

\* a record with a point before a nested record, whose leaves are a
\* constant, a named constant, and a bound variable, has been rebuilt from
\* two different points
C18_Witness ==
    /\ InstanceRebuilt
    /\ reflect.ty = T_Struct(<< Field("p", T_SymPoint),
                                Field("inner", T_Struct(<< Field("p", T_SymPoint),
                                                           Field("s", T_SymScalar) >>)) >>)
    /\ Unwrap(reflect.x) = << SymPoint_Const(0), << H, SymScalar_Var(Some(1)) >> >>
    /\ Unwrap(reflect.back) = Ok(<< SymPoint_Const(0),
                                    << SymPoint_Const(H_POINT), SymScalar_Const(1) >> >>)

\* the sum of arity(child) over the fields of a record type
RECURSIVE SumOfChildren(_, _)
SumOfChildren(arities, i) ==
    IF i > Len(arities) THEN 0 ELSE arities[i] + SumOfChildren(arities, i + 1)

\* C19: for every witness type and every fully instantiated x of it,
\* |values(x)| = num_scalars(); for every instance type and every x of it,
\* |scalars(x)| = num_scalars() and |points(x)| = num_points(); the arity
\* of a record is the sum of the arities of its fields.
C19_ArityConsistency ==
    /\ ( /\ reflect.op = "SymWitness::values"
         /\ Instantiated(reflect.ty, Unwrap(reflect.x))
         /\ IsSome(reflect.out) )
       => /\ Unwrap(reflect.out).ok
          /\ Len(Unwrap(reflect.out).val) = SymWitness_num_scalars(reflect.ty)
    /\ (reflect.op = "SymInstance::scalars" /\ IsSome(reflect.out))
       => /\ Len(reflect.scalars) = SymInstance_num_scalars(reflect.ty)
          /\ Len(reflect.points) = SymInstance_num_points(reflect.ty)
    /\ (reflect.op # "idle" /\ reflect.ty.k = "Struct")
       => LET fields == reflect.ty.fields
          IN  IF reflect.op \in {"SymWitness::values", "SymWitness::from_values"}
              THEN SymWitness_num_scalars(reflect.ty) =
                       SumOfChildren([i \in 1 .. Len(fields) |->
                                         SymWitness_num_scalars(fields[i].ty)], 1)
              ELSE /\ SymInstance_num_scalars(reflect.ty) =
                          SumOfChildren([i \in 1 .. Len(fields) |->
                                            SymInstance_num_scalars(fields[i].ty)], 1)
                   /\ SymInstance_num_points(reflect.ty) =
                          SumOfChildren([i \in 1 .. Len(fields) |->
                                            SymInstance_num_points(fields[i].ty)], 1)

\* a record with a scalar and a nested pair of points, one of them an
\* unbound variable, has been flattened into one scalar and two points
C19_Witness ==
    /\ reflect.op = "SymInstance::scalars"
    /\ IsSome(reflect.out)
    /\ reflect.ty = T_Struct(<< Field("s", T_SymScalar),
                                Field("inner", T_Struct(<< Field("g", T_SymPoint),
                                                           Field("h", T_SymPoint) >>)) >>)
    /\ reflect.scalars = << SymScalar_Const(2) >>
    /\ reflect.points = << SymPoint_Var(None), H >>

\* C20: for every instance type U, records with nested records included,
\* the length of U::get_field_names() is U::num_scalars() + U::num_points().
C20_NameArity ==
    (reflect.op = "SymInstance::get_field_names" /\ IsSome(reflect.out))
    => Len(Unwrap(reflect.out)) =
           SymInstance_num_scalars(reflect.ty) + SymInstance_num_points(reflect.ty)

\* the declared names of the leaves of kind k ("SymScalar" or "SymPoint")
\* of a type, in declaration order, nested records flattened
RECURSIVE LeafNames(_, _, _)
RECURSIVE LeafNamesFold(_, _, _)
LeafNames(ty, k, name) ==
    CASE ty.k = k -> << name >>
      [] ty.k = "Struct" -> LeafNamesFold(ty, k, 1)
      [] OTHER -> << >>

LeafNamesFold(ty, k, i) ==
    IF i > Len(ty.fields) THEN << >>
    ELSE LeafNames(ty.fields[i].ty, k, ty.fields[i].name) \o LeafNamesFold(ty, k, i + 1)

\* C21: for every instance type U, get_field_names() lists the names of
\* the scalar leaves first and the names of the point leaves after them,
\* each group in declaration order: entry i < num_scalars() names
\* scalars()[i] and entry num_scalars() + j names points()[j].
C21_NamesScalarsFirst ==
    (reflect.op = "SymInstance::get_field_names" /\ IsSome(reflect.out))
    => Unwrap(reflect.out) = LeafNames(reflect.ty, "SymScalar", "scalar")
                                 \o LeafNames(reflect.ty, "SymPoint", "point")

\* C22: for every witness type T, nested records included, and every
\* index i < T::num_scalars(), T::get_var_name(i) is the declared name of
\* the scalar leaf at position i of values().
C22_VarNames ==
    ( /\ reflect.op = "SymWitness::get_var_name"
      /\ IsSome(reflect.out)
      /\ Unwrap(reflect.x) < SymWitness_num_scalars(reflect.ty) )
    => Unwrap(reflect.out) = LeafNames(reflect.ty, "SymScalar", "s")[Unwrap(reflect.x) + 1]

\* an operator has been applied to instantiated operands and the node
\* it built has been evaluated
EvaluatedInstantiated ==
    /\ reflect.op \in {"Add", "Sub", "Mul", "Neg", "Scalar::mul"}
    /\ IsSome(reflect.value)
    /\ reflect.op # "Scalar::mul" => NoUnboundLeaf(Unwrap(reflect.lhs))
    /\ IsSome(reflect.rhs) => NoUnboundLeaf(Unwrap(reflect.rhs))

\* C23: evaluate is a homomorphism: for instantiated a, b, the nodes a+b,
\* a-b, a*b and -a evaluate to the sum, difference, product and negation
\* modulo the group order of the values of a and b; for instantiated
\* points A, B and scalar s, A+B, A-B, -A and s*A evaluate to the group
\* operation on the values of the operands.
C23_EvaluateHomomorphism ==
    EvaluatedInstantiated =>
        LET scalar == reflect.ty.k = "SymScalar"
            a == CASE reflect.op = "Scalar::mul" -> Unwrap(reflect.lhs)
                   [] scalar \/ reflect.op = "Mul" ->
                          SymScalar_evaluate(Unwrap(reflect.lhs)).val
                   [] OTHER -> SymPoint_evaluate(Unwrap(reflect.lhs)).val
            b == CASE reflect.op = "Neg" -> 0
                   [] scalar -> SymScalar_evaluate(Unwrap(reflect.rhs)).val
                   [] OTHER -> SymPoint_evaluate(Unwrap(reflect.rhs)).val
            expected == CASE reflect.op = "Add" -> (a + b) % GroupOrder
                          [] reflect.op = "Sub" -> (a - b) % GroupOrder
                          [] reflect.op = "Neg" -> (0 - a) % GroupOrder
                          [] OTHER -> (a * b) % GroupOrder
        IN  Unwrap(reflect.value) = Ok(expected)

\* (1 + 1) * (2 * 1) has evaluated to 2 * 2 = 1 modulo 3, and
\* (2 * 1) * (G + 1) to 2 * 2 = 1
C23_Witness ==
    /\ EvaluatedInstantiated
    /\ reflect.op = "Mul"
    /\ \/ /\ reflect.ty = T_SymScalar
          /\ Unwrap(reflect.lhs) = SymScalar_Add(SymScalar_Const(1), SymScalar_Var(Some(1)))
          /\ Unwrap(reflect.rhs) = SymScalar_Mul(SymScalar_Const(2), SymScalar_Const(1))
       \/ /\ reflect.ty = T_SymPoint
          /\ Unwrap(reflect.lhs) = SymScalar_Mul(SymScalar_Const(2), SymScalar_Const(1))
          /\ Unwrap(reflect.rhs) = SymPoint_Add(SymPoint_Const(1), SymPoint_Var(Some(1)))
    /\ Unwrap(reflect.value) = Ok(1)

\* the errors of the Var(None) leaves of a tree (point says whether the
\* tree is a SymPoint)
RECURSIVE UnboundLeafErrors(_, _)
UnboundLeafErrors(tree, point) ==
    CASE tree.t \in {"Const", "WellKnownConst"} -> {}
      [] tree.t = "Var" ->
            IF IsSome(tree.o) THEN {}
            ELSE IF point THEN {"UninstantiatedPoint"} ELSE {"UninstantiatedScalar"}
      [] tree.t = "Neg" -> UnboundLeafErrors(tree.a, point)
      [] tree.t = "Scale" ->
            UnboundLeafErrors(tree.s, FALSE) \cup UnboundLeafErrors(tree.p, TRUE)
      [] OTHER -> UnboundLeafErrors(tree.a, point) \cup UnboundLeafErrors(tree.b, point)

\* C24: evaluate on a SymScalar or SymPoint tree is Ok exactly when the
\* tree has no Var(None) leaf at any depth; otherwise it is
\* UninstantiatedScalar or UninstantiatedPoint, the kind of one of the
\* tree's unbound leaves; values() of a witness record fails in the same
\* way exactly when one of its leaves has an unbound variable.
C24_UninstantiatedPropagates ==
    /\ (reflect.op \in {"Add", "Sub", "Mul", "Neg", "Scalar::mul"} /\ IsSome(reflect.value))
       => LET tree == Unwrap(reflect.out)
              r == Unwrap(reflect.value)
          IN  /\ r.ok <=> NoUnboundLeaf(tree)
              /\ ~r.ok => /\ DOMAIN r.err = {"kind"}
                          /\ r.err.kind \in UnboundLeafErrors(tree, reflect.ty.k = "SymPoint")
    /\ (reflect.op = "SymWitness::values" /\ IsSome(reflect.out))
       => LET r == Unwrap(reflect.out)
          IN  /\ r.ok <=> Instantiated(reflect.ty, Unwrap(reflect.x))
              /\ ~r.ok => r.err = [kind |-> "UninstantiatedScalar"]

\* G - (1 * ?) with ? an unbound point has failed to evaluate with
\* UninstantiatedPoint
C24_Witness ==
    /\ reflect.op = "Sub"
    /\ reflect.ty = T_SymPoint
    /\ IsSome(reflect.value)
    /\ Unwrap(reflect.lhs) = SymPoint_Const(1)
    /\ Unwrap(reflect.rhs) = SymPoint_Scale(SymScalar_Const(1), SymPoint_Var(None))
    /\ Unwrap(reflect.value) = [ok |-> FALSE, err |-> [kind |-> "UninstantiatedPoint"]]

\* an operator has been applied
OperatorApplied ==
    reflect.op \in {"Add", "Sub", "Mul", "Neg", "Scalar::mul"} /\ IsSome(reflect.out)

\* C25: +, -, unary - and * on symbolic operands (owned or borrowed,
\* instantiated or not) always return a new node of the matching kind
\* (Add, Sub, Neg, Mul) whose children are copies of the operands; a
\* borrowed operand is unchanged afterwards; every scalar-by-point product
\* (SymScalar * SymPoint or Scalar * SymPoint) is a Scale node.
C25_OperatorsBuildNodes ==
    OperatorApplied =>
        LET node == Unwrap(reflect.out)
            lhs == Unwrap(reflect.lhs)
        IN  /\ CASE reflect.op = "Neg" -> node.t = "Neg" /\ node.a = lhs
                 [] reflect.op = "Scalar::mul" ->
                        /\ node.t = "Scale"
                        /\ node.s = [t |-> "Const", v |-> lhs]
                        /\ node.p = Unwrap(reflect.rhs)
                 [] reflect.op = "Mul" /\ reflect.ty.k = "SymPoint" ->
                        node.t = "Scale" /\ node.s = lhs /\ node.p = Unwrap(reflect.rhs)
                 [] OTHER ->
                        node.t = reflect.op /\ node.a = lhs /\ node.b = Unwrap(reflect.rhs)
            /\ reflect.lhs_borrowed => reflect.lhs_after = reflect.lhs
            /\ reflect.rhs_borrowed => reflect.rhs_after = reflect.rhs

\* &a + &b for two constants is an Add node and both operands are still
\* there; &s * &P with unbound s and P is a Scale node
C25_Witness ==
    /\ OperatorApplied
    /\ reflect.lhs_borrowed /\ reflect.rhs_borrowed
    /\ \/ /\ reflect.op = "Add" /\ reflect.ty = T_SymScalar
          /\ Unwrap(reflect.out) = [t |-> "Add", a |-> SymScalar_Const(1), b |-> SymScalar_Const(2)]
          /\ reflect.lhs_after = Some(SymScalar_Const(1))
          /\ reflect.rhs_after = Some(SymScalar_Const(2))
       \/ /\ reflect.op = "Mul" /\ reflect.ty = T_SymPoint
          /\ Unwrap(reflect.out) = [t |-> "Scale", s |-> SymScalar_Var(None), p |-> SymPoint_Var(None)]

\* a tree as written, printed with the declared names of its leaves
RECURSIVE PrintedWithNames(_, _, _)
PrintedWithNames(tree, witness_ty, instance_ty) ==
    LET sub(t) == PrintedWithNames(t, witness_ty, instance_ty)
    IN  CASE tree.t = "W" ->
                << "\\texttt{", Escape(SymWitness_get_var_name(witness_ty, tree.i)), "}" >>
          [] tree.t = "X" ->
                << "\\texttt{", Escape(LeafNames(instance_ty, "SymPoint", "point")[tree.i + 1]), "}" >>
          [] tree.t = "Const" -> << "G" >>
          [] tree.t = "Scale" -> sub(tree.s) \o << " \\cdot " >> \o sub(tree.p)
          [] tree.t = "Neg" -> << "(-" >> \o sub(tree.a) \o << ")" >>
          [] tree.t = "Add" -> << "(" >> \o sub(tree.a) \o << " + " >> \o sub(tree.b) \o << ")" >>
          [] tree.t = "Sub" -> << "(" >> \o sub(tree.a) \o << " - " >> \o sub(tree.b) \o << ")" >>

\* C26: in the text of spec(), every witness leaf of psi is printed as
\* its declared name T::get_var_name(i) and every instance point leaf as
\* its declared name, for every witness arity and instance declaration.
C26_SpecPrintsDeclaredNames ==
    (reflect.op = "SigmaProof::spec" /\ IsSome(reflect.out))
    => LET out == Unwrap(reflect.out)
       IN  /\ out.text = "spec"
           /\ \A k \in 1 .. Len(reflect.psi) :
                 out.psi_equations[k] =
                     PrintedWithNames(reflect.psi[k], reflect.witness_ty, reflect.instance_ty)
           /\ \A k \in 1 .. Len(reflect.f) :
                 out.f_equations[k] =
                     PrintedWithNames(reflect.f[k], reflect.witness_ty, reflect.instance_ty)

\* what the sponge has absorbed once the instance x is in: the encoding
\* of every point leaf, then of every scalar leaf, under the empty label
InstanceEvents(ty, x) ==
    LET points == SymInstance_points(ty, x)
        scalars == SymInstance_scalars(ty, x)
    IN  [i \in 1 .. Len(points) |-> << "", SymPoint_evaluate(points[i]).val + 1 >>]
            \o [i \in 1 .. Len(scalars) |-> << "", SymScalar_evaluate(scalars[i]).val >>]

\* the blocks from..to of a buffer, as absorbed under a label
BlockEvents(label, blocks, from, to) ==
    [i \in 1 .. (to - from + 1) |-> << label, blocks[from + i - 1] >>]

ChallengeEvent == << << "e", 64 >> >>

\* C27: in prove every leaf of X, points then scalars, is absorbed before
\* any commitment, every commitment before the challenge is drawn, and
\* the challenge before any response; in verify f(X) is evaluated first,
\* then the same order holds, the commitments and then the responses
\* being read from the proof.
C27_TranscriptOrder ==
    /\ prover.pc \in {"round1", "round2", "round3"} =>
          LET t == Unwrap(prover.transcript)
              X == InstanceEvents(InstanceType(proto), TheInstance)
              n == Len(psi(proto, TheWitness, TheInstance))
          IN  /\ prover.pc = "round1" =>
                    t.state.messages = X /\ t.proof = << >> /\ ~IsSome(prover.e)
              /\ prover.pc = "round2" =>
                    /\ Len(t.proof) = n
                    /\ t.state.messages = X \o BlockEvents("r", t.proof, 1, n)
                    /\ ~IsSome(prover.e)
              /\ prover.pc = "round3" =>
                    /\ Len(t.proof) = n
                    /\ t.state.messages = X \o BlockEvents("r", t.proof, 1, n) \o ChallengeEvent
                    /\ IsSome(prover.e)
                    /\ Unwrap(prover.query).messages = t.state.messages
    /\ verifier.pc \in {"absorb_instance", "receive_A", "challenge", "receive_sigmas",
                        "psi", "checks"} =>
          LET t == Unwrap(verifier.transcript)
              X == InstanceEvents(InstanceType(proto), Unwrap(verifier.instance))
              n == Len(Unwrap(verifier.big_x_points))
          IN  /\ IsSome(verifier.big_x_points)
              /\ verifier.pc = "absorb_instance" => t.state.messages = << >> /\ t.position = 0
              /\ verifier.pc = "receive_A" => t.state.messages = X /\ t.position = 0
              /\ verifier.pc = "challenge" =>
                    /\ t.position = n
                    /\ t.state.messages = X \o BlockEvents("r", t.proof, 1, n)
                    /\ ~IsSome(verifier.e)
              /\ verifier.pc = "receive_sigmas" =>
                    /\ t.position = n
                    /\ t.state.messages = X \o BlockEvents("r", t.proof, 1, n) \o ChallengeEvent
                    /\ IsSome(verifier.e)
              /\ verifier.pc \in {"psi", "checks"} =>
                    /\ t.position = Len(t.proof)
                    /\ t.state.messages = X \o BlockEvents("r", t.proof, 1, n) \o ChallengeEvent
                                            \o BlockEvents("z", t.proof, n + 1, Len(t.proof))
                    /\ Unwrap(verifier.query).messages =
                           X \o BlockEvents("r", t.proof, 1, n) \o ChallengeEvent

\* the verifier of the tagged protocol has reached the equation check on
\* the prover's proof, with a tag other than zero in the instance
C27_Witness ==
    /\ proto = "tagged"
    /\ ProverReturnedProof
    /\ verifier.pc = "checks"
    /\ verifier.instance = prover.instance
    /\ TheInstance[1] = SymScalar_Const(2)
    /\ Unwrap(verifier.transcript).state.messages[2] = << "", 2 >>

\* the scalars a witness holds, field by field in declaration order
RECURSIVE ScalarsInOrder(_, _)
RECURSIVE ScalarsInOrderFold(_, _, _)
ScalarsInOrder(ty, x) ==
    IF ty.k = "SymScalar" THEN << x.v >> ELSE ScalarsInOrderFold(ty, x, 1)

ScalarsInOrderFold(ty, x, i) ==
    IF i > Len(ty.fields) THEN << >>
    ELSE ScalarsInOrder(ty.fields[i].ty, x[i]) \o ScalarsInOrderFold(ty, x, i + 1)

\* C28: when prove returns a proof for the witness w, the proof holds the
\* commitments followed by exactly N_w responses, and the i-th response
\* is values(w)[i] * e + values(alpha)[i] for the blinding witness alpha
\* that was committed and the challenge e.
C28_PositionalResponses ==
    ProverReturnedProof =>
        LET ty == WitnessType(proto)
            n == Len(psi(proto, Unwrap(prover.alphas), TheInstance))
            w == ScalarsInOrder(ty, TheWitness)
            alpha == ScalarsInOrder(ty, Unwrap(prover.alphas))
            e == Unwrap(prover.e)
            proof == Unwrap(prover.result).val
        IN  /\ Len(alpha) = SymWitness_num_scalars(ty)
            /\ Len(w) = SymWitness_num_scalars(ty)
            /\ Len(proof) = n + SymWitness_num_scalars(ty)
            /\ \A i \in 1 .. SymWitness_num_scalars(ty) :
                  proof[n + i] = (w[i] * e + alpha[i]) % GroupOrder

\* prove has returned a proof with two responses that differ, computed
\* from different witness scalars and different blinding scalars, taken
\* from a nested witness
C28_Witness ==
    /\ proto = "nested"
    /\ ProverReturnedProof
    /\ Unwrap(prover.e) = 2
    /\ TheWitness[1][1] # TheWitness[1][2]
    /\ Unwrap(prover.alphas)[1][1] # Unwrap(prover.alphas)[1][2]
    /\ Len(Unwrap(prover.result).val) = 3
    /\ Unwrap(prover.result).val[2] # Unwrap(prover.result).val[3]

\* C29: common_absorb_scalar, common_absorb_point and challenge leave the
\* buffer and its cursor as they were, in both modes, and add one message
\* to the sponge; prover_absorb_scalar and prover_absorb_point, called on
\* a prover transcript, add exactly one block to the end of the buffer,
\* the encoding of the value, and leave the earlier blocks as they were;
\* the receive operations of the verifier leave the buffer as it was and
\* never move the cursor back.
C29_TranscriptFrame ==
    LET b == reflect.before
        a == reflect.after
    IN  /\ reflect.op \in {"common_absorb_scalar", "common_absorb_point", "challenge"} =>
              /\ a.proof = b.proof /\ a.position = b.position
              /\ a.is_prover = b.is_prover /\ ~a.panicked
              /\ Len(a.state.messages) = Len(b.state.messages) + 1
        /\ reflect.op \in {"prover_absorb_scalar", "prover_absorb_point"} /\ b.is_prover =>
              /\ ~a.panicked
              /\ Len(a.proof) = Len(b.proof) + 1
              /\ SubSeq(a.proof, 1, Len(b.proof)) = b.proof
              /\ a.proof[Len(a.proof)] = IF reflect.op = "prover_absorb_scalar"
                                         THEN reflect.arg ELSE reflect.arg + 1
              /\ a.state.messages = Append(b.state.messages,
                                           << reflect.label, a.proof[Len(a.proof)] >>)
        /\ reflect.op \in {"prover_absorb_scalar", "prover_absorb_point"} /\ ~b.is_prover =>
              a.panicked /\ a.proof = b.proof /\ a.position = b.position
        /\ reflect.op \in {"verifier_receive_points", "verifier_receives_all_scalars"} =>
              /\ a.proof = b.proof
              /\ a.position >= b.position /\ a.position <= Len(a.proof)

\* a prover transcript that already held two blocks has had a third one,
\* different from the first, absorbed
C29_Witness ==
    /\ reflect.op = "prover_absorb_point"
    /\ reflect.before.is_prover
    /\ Len(reflect.before.proof) = 2
    /\ reflect.before.proof[1] # reflect.arg + 1
    /\ Len(reflect.after.proof) = 3

\* a witness of the protocol's type; psi's number of outputs does not
\* depend on which one
TheWitnessOfType(P) ==
    SymWitness_rand(WitnessType(P),
                    [i \in 1 .. SymWitness_num_scalars(WitnessType(P)) |-> 0]).val

\* the blocks of the proof read as n commitments and then responses: every
\* one of the first n is there and is a point, every later one a scalar
ReadsAs(proof, n) ==
    /\ Len(proof.blocks) >= n
    /\ \A i \in 1 .. n : ValidPointBlock(proof.blocks[i])
    /\ \A i \in n + 1 .. Len(proof.blocks) : CanonicalScalarBlock(proof.blocks[i])

\* what the first failing step of verify reports, the steps taken in the
\* order: length, instance, reading, reassembly, arity, equations
FirstFailure(P, x, proof) ==
    LET n == Len(f(P, x))
        N_w == SymWitness_num_scalars(WitnessType(P))
    IN  IF proof.tail # 0 THEN {"TranscriptFinalizationFailed"}
        ELSE IF ~FullyInstantiated(InstanceType(P), x)
        THEN {"UninstantiatedScalar", "UninstantiatedPoint"}
        ELSE IF ~ReadsAs(proof, n) THEN {"TranscriptError"}
        ELSE IF Len(proof.blocks) - n # N_w THEN {"InsufficientScalars", "TooManyScalars"}
        ELSE IF Len(psi(P, TheWitnessOfType(P), x)) # n THEN {"PsiOutputLengthMismatch"}
        ELSE {"EquationCheckFailed", "Ok"}

\* C30: verify returns the error of the first step that fails, in the
\* order length check, evaluation of f(X) and the instance leaves, reading
\* of commitments and responses, reassembly of the responses, output
\* arity, equations; so PsiOutputLengthMismatch and EquationCheckFailed
\* are returned only for a proof that is exactly |f(X)| points followed by
\* exactly N_w canonical scalars.
C30_FirstFailingStep ==
    verifier.pc = "done" =>
        LET r == Result(verifier)
            kind == IF r.ok THEN "Ok" ELSE r.err.kind
        IN  /\ kind \in FirstFailure(proto, VerifierInstance, TheProof)
            /\ kind \in {"PsiOutputLengthMismatch", "EquationCheckFailed"} =>
                  /\ VerifierInstantiated
                  /\ ParsesAs(TheProof, Len(f(proto, VerifierInstance)),
                              SymWitness_num_scalars(WitnessType(proto)))

\* verify has returned TranscriptError for a proof that violates three
\* steps: the second commitment is not a point, a response is missing and
\* the first equation fails whatever the challenge
C30_Witness ==
    /\ proto = "chaum"
    /\ verifier.pc = "done"
    /\ VerifierInstantiated
    /\ TheProof.tail = 0
    /\ Len(TheProof.blocks) = 2
    /\ ValidPointBlock(TheProof.blocks[1])
    /\ ~ValidPointBlock(TheProof.blocks[2])
    /\ RejectedWith(verifier, TranscriptError)

====
